---------------------------- MODULE Spec2Model ----------------------------
(***************************************************************************)
(* A model of bsiconsbot: the text-masking layer (bsiconsbot/textlib.py),  *)
(* the icon identity (bsiconsbot/page.py) and the replacer script          *)
(* (bsiconsbotscripts/replacer.py).                                        *)
(*                                                                         *)
(* Texts are TLA+ strings; a character is a string of length 1.  Python's  *)
(* str and re operations are modelled by what they compute: str.replace is *)
(* the left-to-right non-overlapping replacement, and a regular expression *)
(* is a syntax tree matched by a backtracking matcher that tries the       *)
(* alternatives in the order Python's re does.                             *)
(***************************************************************************)
EXTENDS Integers, Sequences, FiniteSets, TLC

(***************************************************************************)
(* Python str operations.                                                  *)
(***************************************************************************)

\* s[i-1:j-1+1] guarded against the ends of s.
Slice(s, i, j) ==
    IF i > j \/ i < 1 \/ j > Len(s) THEN "" ELSE SubSeq(s, i, j)

\* s[i-1:]
From(s, i) == Slice(s, i, Len(s))

\* Whether p occurs in s at (1-based) position i.
OccursAt(s, p, i) ==
    /\ i >= 1
    /\ i + Len(p) - 1 <= Len(s)
    /\ (Len(p) = 0 \/ SubSeq(s, i, i + Len(p) - 1) = p)

\* s.startswith(p), s.endswith(p)
StartsWith(s, p) == OccursAt(s, p, 1)
EndsWith(s, p) == OccursAt(s, p, Len(s) - Len(p) + 1)

\* The least element of a non-empty set of integers.
Min(ks) == CHOOSE k \in ks : \A j \in ks : k <= j

\* s.find(p, i-1) + 1: the first position >= i where p occurs, 0 if none.
FindFrom(s, p, i) ==
    LET hits == {k \in i..(Len(s) - Len(p) + 1) : OccursAt(s, p, k)} IN
    IF hits = {} THEN 0 ELSE Min(hits)

Find(s, p) == FindFrom(s, p, 1)
Contains(s, p) == Find(s, p) > 0

\* s.replace(old, new) for a non-empty old: every non-overlapping occurrence,
\* found left to right.
RECURSIVE ReplaceFrom(_, _, _, _)
ReplaceFrom(s, old, new, i) ==
    LET k == FindFrom(s, old, i) IN
    IF k = 0 THEN From(s, i)
    ELSE Slice(s, i, k - 1) \o new \o ReplaceFrom(s, old, new, k + Len(old))

\* s.replace("", new): new before every character and at the end.
RECURSIVE Interleave(_, _, _)
Interleave(s, new, i) ==
    IF i > Len(s) THEN new
    ELSE new \o SubSeq(s, i, i) \o Interleave(s, new, i + 1)

\* s.replace(old, new)
Replace(s, old, new) ==
    IF old = "" THEN Interleave(s, new, 1) ELSE ReplaceFrom(s, old, new, 1)

\* The number of non-overlapping occurrences of p in s (s.count(p)), p non-empty.
RECURSIVE CountFrom(_, _, _)
CountFrom(s, p, i) ==
    LET k == FindFrom(s, p, i) IN
    IF k = 0 THEN 0 ELSE 1 + CountFrom(s, p, k + Len(p))

Count(s, p) == CountFrom(s, p, 1)

\* Python's whitespace, as far as a TLA+ string can write it.
WhiteSpace == {" ", "\t", "\n", "\r", "\f"}

RECURSIVE LStrip(_)
LStrip(s) ==
    IF Len(s) > 0 /\ SubSeq(s, 1, 1) \in WhiteSpace THEN LStrip(From(s, 2)) ELSE s

RECURSIVE RStrip(_)
RStrip(s) ==
    IF Len(s) > 0 /\ SubSeq(s, Len(s), Len(s)) \in WhiteSpace
    THEN RStrip(Slice(s, 1, Len(s) - 1)) ELSE s

\* s.strip()
Strip(s) == LStrip(RStrip(s))

\* str(n) for a natural number n.
DigitChars == <<"0", "1", "2", "3", "4", "5", "6", "7", "8", "9">>

RECURSIVE IntToStr(_)
IntToStr(n) ==
    IF n < 10 THEN DigitChars[n + 1]
    ELSE IntToStr(n \div 10) \o DigitChars[(n % 10) + 1]

\* The concatenation of a sequence of strings.
RECURSIVE Concat(_)
Concat(ss) == IF ss = <<>> THEN "" ELSE Head(ss) \o Concat(Tail(ss))

\* sep.join(ss)
RECURSIVE Join(_, _)
Join(sep, ss) ==
    IF ss = <<>> THEN ""
    ELSE IF Len(ss) = 1 THEN ss[1]
    ELSE ss[1] \o sep \o Join(sep, Tail(ss))

(***************************************************************************)
(* Python re: syntax trees and the backtracking matcher.  A regular        *)
(* expression is a sequence of nodes, matched one after the other.         *)
(***************************************************************************)

LowerChars == {"a", "b", "c", "d", "e", "f", "g", "h", "i", "j", "k", "l", "m",
               "n", "o", "p", "q", "r", "s", "t", "u", "v", "w", "x", "y", "z"}
UpperChars == {"A", "B", "C", "D", "E", "F", "G", "H", "I", "J", "K", "L", "M",
               "N", "O", "P", "Q", "R", "S", "T", "U", "V", "W", "X", "Y", "Z"}
DigitSet == {"0", "1", "2", "3", "4", "5", "6", "7", "8", "9"}
\* \w
WordChars == LowerChars \cup UpperChars \cup DigitSet \cup {"_"}

\* A literal string.
Lit(s) == [t |-> "lit", s |-> s]
\* A character class [...] or [^...]: the characters cs and the classes
\* \w, \s, \d named in cls.
Cls(neg, cs, cls) == [t |-> "set", neg |-> neg, cs |-> cs, cls |-> cls]
\* . ; nl says whether it matches a newline (re.S).
Dot(nl) == [t |-> "any", nl |-> nl]
\* r1|r2|...
Alt(rs) == [t |-> "alt", rs |-> rs]
\* r{min,max}, greedy or lazy; max = -1 is unbounded.
Rep(r, min, max, lazy) == [t |-> "rep", r |-> r, min |-> min, max |-> max, lazy |-> lazy]
Star(r) == Rep(r, 0, -1, FALSE)
Plus(r) == Rep(r, 1, -1, FALSE)
Opt(r) == Rep(r, 0, 1, FALSE)
LazyStar(r) == Rep(r, 0, -1, TRUE)
LazyPlus(r) == Rep(r, 1, -1, TRUE)
LazyOpt(r) == Rep(r, 0, 1, TRUE)
\* A capturing group, numbered n.
Grp(n, r) == [t |-> "grp", n |-> n, r |-> r]
\* (?=r) and (?!r)
Look(r) == [t |-> "look", neg |-> FALSE, r |-> r]
NLook(r) == [t |-> "look", neg |-> TRUE, r |-> r]
\* A backreference to group n.
Ref(n) == [t |-> "ref", n |-> n]
\* ^ and $ (no re.M)
Bol == [t |-> "bol"]
Eol == [t |-> "eol"]

W == Cls(FALSE, {}, {"w"})
S == Cls(FALSE, {}, {"s"})
D == Cls(FALSE, {}, {"d"})

InClass(c, n) ==
    LET in == \/ c \in n.cs
              \/ ("w" \in n.cls /\ c \in WordChars)
              \/ ("s" \in n.cls /\ c \in WhiteSpace)
              \/ ("d" \in n.cls /\ c \in DigitSet)
    IN IF n.neg THEN ~in ELSE in

NoMatch == [ok |-> FALSE]

\* Whether the node n, a character class or a dot, matches the character c.
CharMatches(n, c) ==
    IF n.t = "set" THEN InClass(c, n)
    ELSE IF n.t = "lit" THEN c = n.s
    ELSE (n.nl \/ c # "\n")

\* The first way, in Python's order of trying, in which re matches s from
\* position i on; caps holds the groups captured so far.
RECURSIVE ReMatch(_, _, _, _)

\* A regex that takes exactly one character: a class, a dot or a literal
\* character, lookaheads (without groups) behind it; or alternatives of these.
IsCharNode(n) == n.t \in {"set", "any"} \/ (n.t = "lit" /\ Len(n.s) = 1)
OneCharBranch(r) ==
    /\ Len(r) >= 1
    /\ IsCharNode(r[1])
    /\ \A k \in 2..Len(r) :
          r[k].t = "look" /\ \A j \in 1..Len(r[k].r) : r[k].r[j].t \in {"lit", "set", "any"}
OneChar(r) ==
    \/ OneCharBranch(r)
    \/ Len(r) = 1 /\ r[1].t = "alt" /\ \A k \in 1..Len(r[1].rs) : OneCharBranch(r[1].rs[k])

\* Whether the one-character regex r takes the character of s at i.
BranchTakes(r, s, i) ==
    /\ CharMatches(r[1], SubSeq(s, i, i))
    /\ \A k \in 2..Len(r) : ReMatch(r[k].r, s, i + 1, [n \in {} |-> ""]).ok # r[k].neg
Takes(r, s, i) ==
    /\ i <= Len(s)
    /\ IF r[1].t = "alt" THEN \E k \in 1..Len(r[1].rs) : BranchTakes(r[1].rs[k], s, i)
       ELSE BranchTakes(r, s, i)

\* How many characters of s from position i on the one-character regex r
\* takes in a row, max at most (max = -1: any number).
RunLen(r, s, i, max) ==
    LET left == Len(s) - i + 1
        stops == {k \in 0..left : k = left \/ ~Takes(r, s, i + k)}
        run == Min(stops)
    IN IF max >= 0 /\ run > max THEN max ELSE run

\* A repeated single character, greedy: the rest of the regex (re) is tried
\* after k characters, then after k - 1, ..., down to last.
RECURSIVE TryRuns(_, _, _, _, _, _)
TryRuns(re, s, i, caps, k, last) ==
    LET m == ReMatch(re, s, i + k, caps) IN
    IF m.ok THEN m
    ELSE IF k = last THEN NoMatch
    ELSE TryRuns(re, s, i, caps, k - 1, last)

\* A repeated single character, lazy: the rest of the regex is tried after
\* min characters, then after min + 1, ..., up to run; the least number
\* after which it matches is the one taken.
LazyRuns(re, s, i, caps, min, run) ==
    LET fit == {k \in min..run : ReMatch(re, s, i + k, caps).ok}
    IN IF fit = {} THEN NoMatch ELSE ReMatch(re, s, i + Min(fit), caps)

ReMatch(re, s, i, caps) ==
    IF re = <<>> THEN [ok |-> TRUE, end |-> i, caps |-> caps]
    ELSE
    LET n == Head(re)
        rest == Tail(re)
    IN
    CASE n.t = "lit" ->
           IF OccursAt(s, n.s, i) THEN ReMatch(rest, s, i + Len(n.s), caps)
           ELSE NoMatch
      [] n.t = "set" ->
           IF i <= Len(s) /\ InClass(SubSeq(s, i, i), n)
           THEN ReMatch(rest, s, i + 1, caps) ELSE NoMatch
      [] n.t = "any" ->
           IF i <= Len(s) /\ (n.nl \/ SubSeq(s, i, i) # "\n")
           THEN ReMatch(rest, s, i + 1, caps) ELSE NoMatch
      [] n.t = "alt" ->
           IF n.rs = <<>> THEN NoMatch
           ELSE LET first == ReMatch(Head(n.rs) \o rest, s, i, caps) IN
                IF first.ok THEN first
                ELSE ReMatch(<<Alt(Tail(n.rs))>> \o rest, s, i, caps)
      [] n.t = "rep" /\ OneChar(n.r) ->
           LET run == RunLen(n.r, s, i, n.max) IN
           IF run < n.min THEN NoMatch
           ELSE IF n.lazy THEN LazyRuns(rest, s, i, caps, n.min, run)
           ELSE TryRuns(rest, s, i, caps, run, n.min)
      [] n.t = "rep" /\ ~OneChar(n.r) ->
           LET again == Rep(n.r, IF n.min > 0 THEN n.min - 1 ELSE 0,
                            IF n.max > 0 THEN n.max - 1 ELSE n.max, n.lazy)
               more == IF n.max = 0 THEN NoMatch
                       ELSE ReMatch(n.r \o <<[t |-> "adv", from |-> i,
                                              need |-> (n.min = 0)], again>>
                                        \o rest, s, i, caps)
               skip == IF n.min > 0 THEN NoMatch ELSE ReMatch(rest, s, i, caps)
           IN IF n.lazy THEN (IF skip.ok THEN skip ELSE more)
              ELSE (IF more.ok THEN more ELSE skip)
      [] n.t = "adv" ->
           \* an optional iteration that consumed nothing is not taken
           IF n.need /\ i = n.from THEN NoMatch ELSE ReMatch(rest, s, i, caps)
      [] n.t = "grp" ->
           ReMatch(n.r \o <<[t |-> "end", n |-> n.n, from |-> i]>> \o rest, s, i, caps)
      [] n.t = "end" ->
           ReMatch(rest, s, i, (n.n :> Slice(s, n.from, i - 1)) @@ caps)
      [] n.t = "look" ->
           LET m == ReMatch(n.r, s, i, caps) IN
           IF n.neg THEN (IF m.ok THEN NoMatch ELSE ReMatch(rest, s, i, caps))
           ELSE (IF m.ok THEN ReMatch(rest, s, i, m.caps) ELSE NoMatch)
      [] n.t = "ref" ->
           IF n.n \in DOMAIN caps /\ OccursAt(s, caps[n.n], i)
           THEN ReMatch(rest, s, i + Len(caps[n.n]), caps) ELSE NoMatch
      [] n.t = "bol" -> IF i = 1 THEN ReMatch(rest, s, i, caps) ELSE NoMatch
      [] n.t = "eol" ->
           IF i = Len(s) + 1 \/ (i = Len(s) /\ SubSeq(s, i, i) = "\n")
           THEN ReMatch(rest, s, i, caps) ELSE NoMatch

\* No group captured.
NoCaps == [n \in {} |-> ""]

\* The match object of a match m found at position i.
MatchOf(m, i) ==
    IF m.ok THEN [ok |-> TRUE, start |-> i, end |-> m.end, caps |-> m.caps]
    ELSE NoMatch

\* regex.match(s, i-1)
MatchAt(re, s, i) == MatchOf(ReMatch(re, s, i, NoCaps), i)

\* The positions of s at which re matches.
MatchStarts(re, s) == {i \in 1..(Len(s) + 1) : ReMatch(re, s, i, NoCaps).ok}

\* The leftmost match among those that start at the positions given.
FirstMatch(re, s, starts) ==
    IF starts = {} THEN NoMatch ELSE MatchAt(re, s, Min(starts))

\* regex.search(s, i-1)
SearchFrom(re, s, i) == FirstMatch(re, s, {k \in MatchStarts(re, s) : k >= i})

\* Where the search goes on after the match m: where it ended, one further
\* after an empty match.
NextSearch(m) == IF m.end > m.start THEN m.end ELSE m.end + 1

\* regex.finditer(s): the matches left to right, none overlapping another.
RECURSIVE FindIterFrom(_, _, _, _)
FindIterWith(re, s, starts, m) ==
    IF ~m.ok THEN <<>>
    ELSE <<m>> \o FindIterFrom(re, s, NextSearch(m), starts)
FindIterFrom(re, s, i, starts) ==
    FindIterWith(re, s, starts, FirstMatch(re, s, {k \in starts : k >= i}))

FindIter(re, s) == FindIterFrom(re, s, 1, MatchStarts(re, s))

\* match.group(n): None is modelled as "" (as findall gives it).
Group(m, n) == IF n \in DOMAIN m.caps THEN m.caps[n] ELSE ""

\* regex.findall(s) for a regex of ngroups groups: the whole match when it has
\* none, the group when it has one, the tuple of its groups otherwise.
FindAllOf(ms, ngroups, s) ==
    [k \in 1..Len(ms) |->
        IF ngroups = 0 THEN Slice(s, ms[k].start, ms[k].end - 1)
        ELSE IF ngroups = 1 THEN Group(ms[k], 1)
        ELSE [g \in 1..ngroups |-> Group(ms[k], g)]]
FindAll(re, ngroups, s) == FindAllOf(FindIter(re, s), ngroups, s)

\* regex.sub(repl, s) for a repl without group references.
RECURSIVE ReSubFrom(_, _, _, _)
ReSubWith(re, repl, s, i, m) ==
    IF ~m.ok THEN From(s, i)
    ELSE Slice(s, i, m.start - 1) \o repl
         \o (IF m.end > m.start THEN "" ELSE Slice(s, m.start, m.start))
         \o ReSubFrom(re, repl, s, NextSearch(m))
ReSubFrom(re, repl, s, i) == ReSubWith(re, repl, s, i, SearchFrom(re, s, i))

ReSub(re, repl, s) == ReSubFrom(re, repl, s, 1)

(***************************************************************************)
(* bsiconsbot/textlib.py: the masking layer.                               *)
(***************************************************************************)

\* The marker unmask_text scans for, and the placeholder of a key.
Marker == "***bot***masked***"
Placeholder(key) == Marker \o IntToStr(key) \o "***"

\* The pipe magic word and its fixed placeholder.
PipeMw == "{{!}}"
PipePlaceholder == "|***bot***=***param***|"

\* tags_regex (re.S):
\* (<\/?\w+(?:\s+\w+(?:\s*=\s*(?:(?:"[^"]*")|(?:'[^']*')|[^>\s]+))?)*\s*\/?>)
TagsRegex ==
    <<Grp(1, <<Lit("<"), Opt(<<Lit("/")>>), Plus(<<W>>),
               Star(<<Plus(<<S>>), Plus(<<W>>),
                      Opt(<<Star(<<S>>), Lit("="), Star(<<S>>),
                            Alt(<< <<Lit("\""), Star(<<Cls(TRUE, {"\""}, {})>>), Lit("\"")>>,
                                   <<Lit("'"), Star(<<Cls(TRUE, {"'"}, {})>>), Lit("'")>>,
                                   <<Plus(<<Cls(TRUE, {">"}, {"s"})>>)>> >>)>>)>>),
               Star(<<S>>), Opt(<<Lit("/")>>), Lit(">")>>)>>

\* A mask store is a function from its keys (positive integers) to the
\* substrings they stand for.
EmptyMask == [k \in {} |-> ""]

MaxKey(mask) == CHOOSE k \in DOMAIN mask : \A j \in DOMAIN mask : j <= k

\* The first key mask_text assigns: one past the largest key, 1 for an empty
\* (or absent) store.
FirstKey(mask) == IF DOMAIN mask = {} THEN 1 ELSE MaxKey(mask) + 1

\* Insert m into ms, which is sorted by length descending, after every element
\* that is at least as long (a stable sort).
RECURSIVE InsertByLen(_, _)
InsertByLen(ms, m) ==
    IF ms = <<>> THEN <<m>>
    ELSE IF Len(Head(ms)) >= Len(m) THEN <<Head(ms)>> \o InsertByLen(Tail(ms), m)
    ELSE <<m>> \o ms

RECURSIVE SortRest(_, _)
SortRest(done, todo) ==
    IF todo = <<>> THEN done ELSE SortRest(InsertByLen(done, Head(todo)), Tail(todo))

\* The matches in the order found (a mask_text that does not sort).
NotSorted(matches) == matches

\* sorted(matches, key=len, reverse=True)
SortedByLen(matches) == SortRest(<<>>, matches)

\* match[0] if isinstance(match, tuple) else match, for each match of findall
MatchStrings(found, ngroups) ==
    [k \in 1..Len(found) |-> IF ngroups > 1 THEN found[k][1] ELSE found[k]]

\* The loop of mask_text over the sorted matches.
RECURSIVE MaskLoop(_, _, _, _)
MaskLoop(text, mask, key, matches) ==
    IF matches = <<>> THEN [text |-> text, mask |-> mask]
    ELSE MaskLoop(Replace(text, Head(matches), Placeholder(key)),
                  (key :> Head(matches)) @@ mask, key + 1, Tail(matches))

\* mask_text(text, regex, mask): the masked text and the mask store.
mask_text(text, regex, ngroups, mask) ==
    MaskLoop(text, mask, FirstKey(mask),
             SortedByLen(MatchStrings(FindAll(regex, ngroups, text), ngroups)))

\* MaskNoTags: a masking that leaves the tags in the text.
MaskNoTags(text, mask) == [text |-> text, mask |-> mask]
mask_html_tags(text, mask) == mask_text(text, TagsRegex, 1, mask)

mask_pipe_mw(text) == Replace(text, PipeMw, PipePlaceholder)

\* The keys of a mask store in the order dict.items() gives them: the order
\* of insertion, which is ascending.
RECURSIVE KeysAscending(_)
KeysAscending(keys) ==
    IF keys = {} THEN <<>>
    ELSE LET k == CHOOSE j \in keys : \A l \in keys : j <= l
         IN <<k>> \o KeysAscending(keys \ {k})

RECURSIVE UnmaskKeys(_, _, _)
UnmaskKeys(text, mask, keys) ==
    IF keys = <<>> THEN text
    ELSE UnmaskKeys(Replace(text, Placeholder(Head(keys)), mask[Head(keys)]),
                    mask, Tail(keys))

\* unmask_text, its first line: the pipe placeholders become the magic word.
UnmaskPipe(text) == Replace(text, PipePlaceholder, PipeMw)

\* unmask_text, one pass of the body of its while loop.
UnmaskPass(text, mask) == UnmaskKeys(text, mask, KeysAscending(DOMAIN mask))

\* The condition of the while loop of unmask_text.
MarkerFound(text) == Contains(text, Marker)

(***************************************************************************)
(* bsiconsbot/page.py: BSiconPage, the identity of an icon.  pywikibot's   *)
(* handling of a page title is modelled as far as BSiconPage relies on it: *)
(* the File namespace is split off, blanks and underscores are one thing,  *)
(* the first letter is upper case, and a title that is empty or holds a    *)
(* character no title may hold is refused with pywikibot's own error.      *)
(***************************************************************************)

PREFIX == "BSicon_"
SUFFIX == ".svg"

LowerSeq == <<"a", "b", "c", "d", "e", "f", "g", "h", "i", "j", "k", "l", "m",
              "n", "o", "p", "q", "r", "s", "t", "u", "v", "w", "x", "y", "z">>
UpperSeq == <<"A", "B", "C", "D", "E", "F", "G", "H", "I", "J", "K", "L", "M",
              "N", "O", "P", "Q", "R", "S", "T", "U", "V", "W", "X", "Y", "Z">>

\* c.upper() for one character
UpperChar(c) ==
    IF c \in LowerChars
    THEN UpperSeq[CHOOSE k \in 1..26 : LowerSeq[k] = c] ELSE c

\* c.swapcase() for one character
SwapCase(c) ==
    IF c \in LowerChars THEN UpperChar(c)
    ELSE IF c \in UpperChars THEN LowerSeq[CHOOSE k \in 1..26 : UpperSeq[k] = c]
    ELSE c

UpperFirst(s) == IF s = "" THEN s ELSE UpperChar(SubSeq(s, 1, 1)) \o From(s, 2)

\* The prefixes of the File namespace on the wikis of the model.
FileNamespace == <<"File", "Image">>

\* The title with a File namespace prefix split off.
WithoutNs(title) ==
    LET t == Strip(title)
        colon == Find(t, ":")
        ns == UpperFirst(Strip(Slice(t, 1, colon - 1)))
    IN IF colon > 0 /\ \E k \in 1..Len(FileNamespace) : FileNamespace[k] = ns
       THEN From(t, colon + 1) ELSE t

\* Runs of blanks and underscores become one underscore, none at the ends.
RECURSIVE Squeeze(_)
Squeeze(s) == IF Contains(s, "__") THEN Squeeze(Replace(s, "__", "_")) ELSE s

RECURSIVE TrimUnderscores(_)
TrimUnderscores(s) ==
    IF StartsWith(s, "_") /\ Len(s) > 0 THEN TrimUnderscores(From(s, 2))
    ELSE IF EndsWith(s, "_") /\ Len(s) > 0 THEN TrimUnderscores(Slice(s, 1, Len(s) - 1))
    ELSE s

\* page.title(underscore=True, with_ns=False) of the page of a given title.
TitleUnderscore(title) ==
    UpperFirst(TrimUnderscores(Squeeze(Replace(Strip(WithoutNs(title)), " ", "_"))))

\* The characters pywikibot allows in no title.
IllegalTitleChars == {"[", "]", "{", "}", "|", "#", "<", ">"}

\* pywikibot refuses the title (InvalidTitleError): underscored, it is empty
\* or holds an illegal character.
InvalidTitle(t) ==
    \/ t = ""
    \/ \E k \in 1..Len(t) : SubSeq(t, k, k) \in IllegalTitleChars

\* The check of BSiconPage.__init__ on the title (PrefixOnly: a check that
\* forgets the suffix).
PrefixOnly(t) == StartsWith(t, PREFIX)
HasPrefixSuffix(t) == StartsWith(t, PREFIX) /\ EndsWith(t, SUFFIX)

\* BSiconPage(site, title=title, name=name): the page, or the error raised.
\* A page is its site and its title (underscored, without namespace).
TitleArgument(title, name) ==
    IF title = "" /\ name # "" THEN PREFIX \o name \o SUFFIX ELSE title
CheckedPage(site, t) ==
    IF InvalidTitle(t) THEN [ok |-> FALSE, err |-> "InvalidTitleError"]
    ELSE IF ~HasPrefixSuffix(t) THEN [ok |-> FALSE, err |-> "ValueError"]
    ELSE [ok |-> TRUE, site |-> site, title |-> t]
BSiconPage(site, title, name) ==
    CheckedPage(site, TitleUnderscore(TitleArgument(title, name)))

\* BSiconPage.name
BSiconName(icon) == Slice(icon.title, Len(PREFIX) + 1, Len(icon.title) - Len(SUFFIX))

\* page.title(with_ns=False): with blanks, not underscores.
TitleNoNs(icon) == Replace(icon.title, "_", " ")

\* page.title(): with the namespace.
TitleFull(icon) == FileNamespace[1] \o ":" \o TitleNoNs(icon)

\* pywikibot's equality of pages: the same site and title.
SamePage(a, b) == a.site = b.site /\ a.title = b.title

\* BSiconPage.__eq__
IconEq(a, b) == BSiconName(a) = BSiconName(b)

\* BSiconPage.__hash__: the hash of the name, a function of the name.
IconHash(a) == <<"hash", BSiconName(a)>>

\* A dict keyed by icons is the sequence of its items in insertion order.
\* d[key] = value: an equal key keeps its place (and the first key object).
DictSet(d, key, value) ==
    IF \E k \in 1..Len(d) : IconHash(d[k].key) = IconHash(key) /\ IconEq(d[k].key, key)
    THEN [k \in 1..Len(d) |->
             IF IconHash(d[k].key) = IconHash(key) /\ IconEq(d[k].key, key)
             THEN [key |-> d[k].key, value |-> value] ELSE d[k]]
    ELSE Append(d, [key |-> key, value |-> value])

\* d.get(key, None)
None == [ok |-> FALSE, err |-> "None"]
DictGet(d, key) ==
    LET hits == {k \in 1..Len(d) :
                    IconHash(d[k].key) = IconHash(key) /\ IconEq(d[k].key, key)}
    IN IF hits = {} THEN None ELSE d[Min(hits)].value

\* process_options, the explicit replacement_map: its items in order, each a
\* pair of titles pywikibot accepts, from the k-th on; an item that is no
\* pair of icons is passed over.
RECURSIVE ExplicitMap(_, _, _, _)
MapItem(map, page, target) ==
    IF page.ok /\ target.ok THEN DictSet(map, page, target) ELSE map
ExplicitMap(map, site, items, k) ==
    IF k > Len(items) THEN map
    ELSE ExplicitMap(MapItem(map, BSiconPage(site, items[k][1], ""),
                             BSiconPage(site, items[k][2], "")),
                     site, items, k + 1)

(***************************************************************************)
(* bsiconsbotscripts/replacer.py: the rewriting of template parameters.    *)
(* A template is its name and its parameters in order; a parameter is its  *)
(* name and its value as written.  The replacements recorded for a page    *)
(* are a set of pairs of names (Replacement is equal by its two icons).    *)
(***************************************************************************)

\* HTML_COMMENT: <!--.*?--> with re.S
HTML_COMMENT == <<Lit("<!--"), LazyStar(<<Dot(TRUE)>>), Lit("-->")>>

\* ROUTEMAP_BSICON: a lookahead holding the three groups: the delimiter
\* before, the token, the delimiter after.
ROUTEMAP_BSICON ==
    <<Look(<<Grp(1, <<Alt(<< <<Lit("\n")>>, <<Lit("! !")>>, <<Lit("!~")>>,
                             <<Lit("\\")>> >>),
                      Star(<<Cls(FALSE, {" ", "\t"}, {})>>)>>),
             Grp(2, <<LazyPlus(<<Alt(<< <<Cls(TRUE, {"\\", "~", "\n"}, {})>>,
                                        <<Lit("~"), NLook(<<Lit("~")>>)>> >>)>>)>>),
             Grp(3, <<Star(<<Cls(FALSE, {" ", "\t"}, {})>>),
                      Alt(<< <<Lit("\n")>>, <<Lit("!~")>>, <<Lit("~~")>>,
                             <<Lit("!@")>>, <<Lit("__")>>, <<Lit("!_")>>,
                             <<Lit("\\")>> >>)>>)>>)>>

\* ^(?:map\d*|\d+)$
MapParamName ==
    <<Bol, Alt(<< <<Lit("map"), Star(<<D>>)>>, <<Plus(<<D>>)>> >>), Eol>>

\* Replacement(old, new)
Replacement(old, new) == [old |-> BSiconName(old), new |-> BSiconName(new)]

\* HTML_COMMENT.sub("", str(param.value)).strip()
StripComments(value) == Strip(ReSub(HTML_COMMENT, "", value))

\* param.name.matches(other) of mwparserfromhell: the names are compared
\* stripped, first letter in upper case, underscores as blanks.
NormalizeName(s) == Replace(UpperFirst(Strip(s)), "_", " ")
Matches(name, other) ==
    NormalizeName(ReSub(HTML_COMMENT, "", name)) = NormalizeName(other)

\* The icon of a name on the page's site and what the map holds for it:
\* the try/except and the bsicons_map.get of every strategy.
Found(icon, new) ==
    IF new = None THEN [found |-> FALSE]
    ELSE [found |-> TRUE, old |-> icon, new |-> new]
ReplacementOf(map, icon) ==
    IF ~icon.ok THEN [found |-> FALSE] ELSE Found(icon, DictGet(map, icon))
FindReplacement(map, site, name) == ReplacementOf(map, BSiconPage(site, "", name))

\* param.value = v
SetValue(params, k, v) == [params EXCEPT ![k].value = v]

\* What a strategy works on: the parameters of the template and the
\* replacements recorded for the page so far.
Rewritten(st, k, v, old, new) ==
    [params |-> SetValue(st.params, k, v),
     repl |-> st.repl \cup {Replacement(old, new)}]

\* "The replacement must have the same prefix."  (AnyPrefix: no such test.)
AnyPrefix(name, prefix) == TRUE
SamePrefix(name, prefix) == Slice(name, 1, Len(prefix)) = prefix

\* _replace_bs_template_files, the body of the loop over tpl.params
\* (f is what the map holds for the icon of prefix + param_value)
BsRewrite(st, k, prefix, param_value, f) ==
    IF ~f.found THEN st
    ELSE IF SamePrefix(BSiconName(f.new), prefix)
    THEN Rewritten(st, k,
                   Replace(st.params[k].value, param_value,
                           From(BSiconName(f.new), Len(prefix) + 1)),
                   f.old, f.new)
    ELSE st
BsLookup(st, k, prefix, param_value, map, site) ==
    BsRewrite(st, k, prefix, param_value,
              FindReplacement(map, site, prefix \o param_value))
BsParam(st, k, icon_prefix, map, site) ==
    BsLookup(st, k,
             IF Matches(st.params[k].name, "1") THEN Strip(icon_prefix) ELSE "",
             StripComments(st.params[k].value), map, site)

\* for param in tpl.params, from the k-th parameter on
RECURSIVE BsParams(_, _, _, _, _)
BsParams(st, k, icon_prefix, map, site) ==
    IF k > Len(st.params) THEN st
    ELSE BsParams(BsParam(st, k, icon_prefix, map, site), k + 1, icon_prefix, map, site)

\* _replace_bs_template_files: the groups of BS_templates in the order of the
\* dict, from the g-th on; a group the template is not in is passed over.
RECURSIVE BsGroups(_, _, _, _, _, _)
BsGroups(st, template, groups, g, map, site) ==
    IF g > Len(groups) THEN st
    ELSE BsGroups(IF template \in groups[g].templates
                  THEN BsParams(st, 1, groups[g].prefix, map, site) ELSE st,
                  template, groups, g + 1, map, site)

\* (BsOfAnyTemplate: the parameters of the template are rewritten as those
\* of a template of every group, whatever the template.)
BsOfAnyTemplate(st, template, groups, map, site) ==
    BsGroups(st, template,
             [g \in 1..Len(groups) |->
                 [prefix |-> groups[g].prefix, templates |-> {template}]],
             1, map, site)
replace_bs_template_files(st, template, groups, map, site) ==
    BsGroups(st, template, groups, 1, map, site)

\* The icon a typ value stands for.
TypIcon(param_value) ==
    IF Slice(param_value, 1, 2) = "ex" THEN "exl" \o From(param_value, 3)
    ELSE "l" \o param_value

\* The typ value of an icon name, if it has one.  (TypDropFirst: the name
\* without its first character, whatever it is.)
TypDropFirst(name) == [ok |-> TRUE, value |-> From(name, 2)]
TypValue(name) ==
    IF Slice(name, 1, 3) = "exl" THEN [ok |-> TRUE, value |-> "ex" \o From(name, 4)]
    ELSE IF Slice(name, 1, 1) = "l" THEN [ok |-> TRUE, value |-> From(name, 2)]
    ELSE [ok |-> FALSE]

\* _replace_rt_template_files, the body of the loop over tpl.params
\* (f is what the map holds for the icon of current_name; replacement is the
\* new value, if the new icon has one)
RtRewrite(st, k, param_value, f, replacement) ==
    IF ~replacement.ok THEN st
    ELSE Rewritten(st, k, Replace(st.params[k].value, param_value, replacement.value),
                   f.old, f.new)
RtReplacement(st, k, param_value, typ, f) ==
    IF ~f.found THEN st
    ELSE RtRewrite(st, k, param_value, f,
                   IF typ THEN TypValue(BSiconName(f.new))
                   ELSE [ok |-> TRUE, value |-> BSiconName(f.new)])
RtLookup(st, k, param_value, typ, map, site) ==
    RtReplacement(st, k, param_value, typ,
                  FindReplacement(map, site,
                                  IF typ THEN TypIcon(param_value) ELSE param_value))
RtParam(st, k, map, site) ==
    RtLookup(st, k, StripComments(st.params[k].value),
             Matches(st.params[k].name, "typ"), map, site)

RECURSIVE RtParams(_, _, _, _)
RtParams(st, k, map, site) ==
    IF k > Len(st.params) THEN st
    ELSE RtParams(RtParam(st, k, map, site), k + 1, map, site)

replace_rt_template_files(st, map, site) == RtParams(st, 1, map, site)

\* _replace_routemap_files, the loop over the matches found in the value as it
\* was: v is param_value, rewritten match by match.
RECURSIVE RoutemapMatches(_, _, _, _, _, _)
\* (f is what the map holds for the icon of current_name)
RoutemapRewrite(v, repl, match, current_name, f) ==
    IF ~f.found THEN [value |-> v, repl |-> repl]
    ELSE [value |-> Replace(v, match[1] \o match[2] \o match[3],
                            match[1]
                            \o Replace(match[2], current_name, BSiconName(f.new))
                            \o match[3]),
          repl |-> repl \cup {Replacement(f.old, f.new)}]
RoutemapLookup(v, repl, match, current_name, map, site) ==
    RoutemapRewrite(v, repl, match, current_name,
                    FindReplacement(map, site, current_name))
RoutemapNext(r, matches, j, map, site) ==
    RoutemapMatches(r.value, r.repl, matches, j, map, site)
RoutemapMatches(v, repl, matches, j, map, site) ==
    IF j > Len(matches) THEN [value |-> v, repl |-> repl]
    ELSE RoutemapNext(RoutemapLookup(v, repl, matches[j],
                                     StripComments(matches[j][2]), map, site),
                      matches, j + 1, map, site)

\* _replace_routemap_files, the body of the loop over tpl.params
RoutemapValue(st, k, r) ==
    [params |-> SetValue(st.params, k, r.value), repl |-> r.repl]
RoutemapParam(st, k, map, site) ==
    IF ~SearchFrom(MapParamName, Strip(st.params[k].name), 1).ok THEN st
    ELSE RoutemapValue(st, k,
                       RoutemapMatches(st.params[k].value, st.repl,
                                       FindAll(ROUTEMAP_BSICON, 3, st.params[k].value),
                                       1, map, site))

RECURSIVE RoutemapParams(_, _, _, _)
RoutemapParams(st, k, map, site) ==
    IF k > Len(st.params) THEN st
    ELSE RoutemapParams(RoutemapParam(st, k, map, site), k + 1, map, site)

replace_routemap_files(st, map, site) == RoutemapParams(st, 1, map, site)

(***************************************************************************)
(* bsiconsbotscripts/replacer.py: the rewriting of a page.  What the       *)
(* replacer takes from pywikibot and mwparserfromhell is modelled as far   *)
(* as the pages of the model need it: the disabled parts of a text are its *)
(* comments and its nowiki regions; a parsed text is the sequence of its   *)
(* nodes, which are texts, transclusions without braces inside them (the   *)
(* parameters split at the pipes, a key before the first equals sign) and  *)
(* gallery tags without attributes, whose contents are not parsed.         *)
(***************************************************************************)

\* removeDisabledParts(text) of pywikibot.textlib
DisabledParts ==
    <<Alt(<< <<Lit("<!--"), LazyStar(<<Dot(TRUE)>>), Lit("-->")>>,
             <<Lit("<nowiki>"), LazyStar(<<Dot(TRUE)>>), Lit("</nowiki>")>> >>)>>
removeDisabledParts(text) == ReSub(DisabledParts, "", text)

\* site_config: "[" + c + c.swapcase() + "]" if c.isalpha() else c, for the
\* characters of the names of the File namespace joined by "|"
NamespaceChar(c) ==
    IF c \in LowerChars \cup UpperChars THEN Cls(FALSE, {c, SwapCase(c)}, {})
    ELSE Lit(c)
NamespaceName(name) == [k \in 1..Len(name) |-> NamespaceChar(SubSeq(name, k, k))]
file_namespaces == [k \in 1..Len(FileNamespace) |-> NamespaceName(FileNamespace[k])]

\* FILE_LINK_REGEX.format(namespaces), compiled with re.X.  The groups:
\* 1 filename, 2 the optional part from the first pipe on, 3 one piece of
\* it, 4 and 5 inner_link, 6 other_chars, 7 not_wikilink.
FILE_LINK_REGEX(namespaces) ==
    <<Lit("[["), Star(<<S>>), Alt(namespaces), Star(<<S>>), Lit(":"),
      Look(<<Grp(1, <<Star(<<Cls(TRUE, {"]", "|"}, {})>>)>>)>>), Ref(1),
      LazyOpt(<<Grp(2,
        <<Lit("|"),
          LazyStar(<<Grp(3, <<Alt(<<
            <<Opt(<<Grp(4, <<Look(<<Grp(5, <<Lit("[["), LazyStar(<<Dot(FALSE)>>),
                                              Lit("]]")>>)>>),
                             Ref(5)>>)>>),
              Look(<<Grp(6, <<Star(<<Cls(TRUE, {"[", "]"}, {})>>)>>)>>), Ref(6)>>,
            <<Look(<<Grp(7, <<Lit("["), Star(<<Cls(TRUE, {"]"}, {})>>),
                              Lit("]")>>)>>),
              Ref(7)>> >>)>>)>>)>>)>>),
      Lit("]]")>>

\* self.site_config["file_regex"]
file_regex == FILE_LINK_REGEX(file_namespaces)

\* replace_file_links, the loop over the matches found in the text without
\* its disabled parts; text is rewritten match by match.
RECURSIVE FileLinkMatches(_, _, _, _, _, _)
\* (f is what the map holds for the icon of the file name)
FileLinkRewrite(text, repl, filename, f) ==
    IF ~f.found THEN [text |-> text, repl |-> repl]
    ELSE [text |-> Replace(text, filename, TitleNoNs(f.new)),
          repl |-> repl \cup {Replacement(f.old, f.new)}]
FileLinkLookup(text, repl, filename, map, site) ==
    FileLinkRewrite(text, repl, filename,
                    ReplacementOf(map, BSiconPage(site, filename, "")))
FileLinkNext(r, matches, j, map, site) ==
    FileLinkMatches(r.text, r.repl, matches, j, map, site)
FileLinkMatches(text, repl, matches, j, map, site) ==
    IF j > Len(matches) THEN [text |-> text, repl |-> repl]
    ELSE FileLinkNext(FileLinkLookup(text, repl, Group(matches[j], 1), map, site),
                      matches, j + 1, map, site)

replace_file_links(text, repl, map, site) ==
    FileLinkMatches(text, repl, FindIter(file_regex, removeDisabledParts(text)),
                    1, map, site)

\* s.split(sep)
RECURSIVE Split(_, _)
SplitAt(s, sep, k) ==
    IF k = 0 THEN <<s>> ELSE <<Slice(s, 1, k - 1)>> \o Split(From(s, k + Len(sep)), sep)
Split(s, sep) == SplitAt(s, sep, Find(s, sep))

\* s.splitlines()
RECURSIVE SplitLines(_)
SplitLinesAt(s, k) ==
    IF k = 0 THEN <<s>> ELSE <<Slice(s, 1, k - 1)>> \o SplitLines(From(s, k + 1))
SplitLines(s) == IF s = "" THEN <<>> ELSE SplitLinesAt(s, Find(s, "\n"))

\* s.partition(sep)
PartitionAt(s, sep, k) ==
    IF k = 0 THEN <<s, "", "">> ELSE <<Slice(s, 1, k - 1), sep, From(s, k + Len(sep))>>
Partition(s, sep) == PartitionAt(s, sep, Find(s, sep))

\* The nodes of a parsed text.
TextNode(s) == [t |-> "text", s |-> s, name |-> "", params |-> <<>>]
GalleryNode(contents) == [t |-> "gallery", s |-> contents, name |-> "", params |-> <<>>]
TemplateNode(name, params) == [t |-> "tpl", s |-> "", name |-> name, params |-> params]

\* A parameter as written between two pipes: with a key, or the n-th without.
ParamAt(part, n, eq) ==
    IF eq = 0 THEN [name |-> IntToStr(n), value |-> part, showkey |-> FALSE]
    ELSE [name |-> Slice(part, 1, eq - 1), value |-> From(part, eq + 1), showkey |-> TRUE]
RECURSIVE ParseParams(_, _, _)
ParseParamsWith(parts, k, n, p) ==
    <<p>> \o ParseParams(parts, k + 1, IF p.showkey THEN n ELSE n + 1)
ParseParams(parts, k, n) ==
    IF k > Len(parts) THEN <<>>
    ELSE ParseParamsWith(parts, k, n, ParamAt(parts[k], n, Find(parts[k], "=")))
ParseTemplate(parts) == TemplateNode(parts[1], ParseParams(parts, 2, 1))

\* A transclusion or a gallery tag.
TemplateOrGallery ==
    <<Alt(<< <<Lit("{{"), Grp(1, <<Plus(<<Cls(TRUE, {"{", "}"}, {})>>)>>), Lit("}}")>>,
             <<Lit("<gallery>"), Grp(2, <<LazyStar(<<Dot(TRUE)>>)>>),
               Lit("</gallery>")>> >>)>>

\* mwparserfromhell.parse(text, skip_style_tags=True)
NodeOf(m) ==
    IF 1 \in DOMAIN m.caps THEN ParseTemplate(Split(m.caps[1], "|"))
    ELSE GalleryNode(m.caps[2])
TextBetween(s) == IF s = "" THEN <<>> ELSE <<TextNode(s)>>
RECURSIVE NodesFrom(_, _, _, _)
NodesFrom(text, ms, j, i) ==
    IF j > Len(ms) THEN TextBetween(From(text, i))
    ELSE TextBetween(Slice(text, i, ms[j].start - 1)) \o <<NodeOf(ms[j])>>
         \o NodesFrom(text, ms, j + 1, ms[j].end)
Parse(text) == NodesFrom(text, FindIter(TemplateOrGallery, text), 1, 1)

\* str(wikicode)
ParamStr(p) == "|" \o (IF p.showkey THEN p.name \o "=" \o p.value ELSE p.value)
NodeStr(n) ==
    IF n.t = "text" THEN n.s
    ELSE IF n.t = "gallery" THEN "<gallery>" \o n.s \o "</gallery>"
    ELSE "{{" \o n.name \o Concat([k \in 1..Len(n.params) |-> ParamStr(n.params[k])])
         \o "}}"
Str(wikicode) == Concat([k \in 1..Len(wikicode) |-> NodeStr(wikicode[k])])

\* replace_gallery_files, the loop over the lines of one gallery
RECURSIVE GalleryLines(_, _, _, _, _)
\* (f is what the map holds for the icon of the title of the line)
GalleryRewrite(lines, repl, i, parts, f) ==
    IF ~f.found THEN [lines |-> lines, repl |-> repl]
    ELSE [lines |-> [lines EXCEPT ![i] = TitleFull(f.new) \o parts[2] \o parts[3]],
          repl |-> repl \cup {Replacement(f.old, f.new)}]
GalleryLookup(lines, repl, i, parts, map, site) ==
    IF parts[1] = "" THEN [lines |-> lines, repl |-> repl]
    ELSE GalleryRewrite(lines, repl, i, parts,
                        ReplacementOf(map, BSiconPage(site, parts[1], "")))
GalleryNext(r, i, map, site) == GalleryLines(r.lines, r.repl, i, map, site)
GalleryLines(lines, repl, i, map, site) ==
    IF i > Len(lines) THEN [lines |-> lines, repl |-> repl]
    ELSE GalleryNext(GalleryLookup(lines, repl, i,
                                   Partition(removeDisabledParts(lines[i]), "|"),
                                   map, site),
                     i + 1, map, site)

\* if self.current_page.replacements: tag.contents = "\n".join(lines) + "\n"
GalleryContents(node, r) ==
    [node |-> IF r.repl # {} THEN GalleryNode(Join("\n", r.lines) \o "\n") ELSE node,
     repl |-> r.repl]
GalleryTag(node, repl, map, site) ==
    GalleryContents(node, GalleryLines(SplitLines(node.s), repl, 1, map, site))

\* replace_gallery_files: for tag in wikicode.ifilter_tags(), from the k-th
\* node on; st is the parsed text and the replacements recorded so far.
RECURSIVE GalleryTags(_, _, _, _)
NodeDone(st, k, r) == [code |-> [st.code EXCEPT ![k] = r.node], repl |-> r.repl]
GalleryTags(st, k, map, site) ==
    IF k > Len(st.code) THEN st
    ELSE GalleryTags(IF st.code[k].t = "gallery"
                     THEN NodeDone(st, k, GalleryTag(st.code[k], st.repl, map, site))
                     ELSE st,
                     k + 1, map, site)
replace_gallery_files(st, map, site) == GalleryTags(st, 1, map, site)

\* The local config of the site "cs": the templates of each strategy.
\* (The templates of the other two strategies are BS templates as well,
\* which no config is kept from.)
BS_templates ==
    <<[prefix |-> " x", templates |-> {"BSx"}],
      [prefix |-> "", templates |-> {"BS", "Rt", "Routemap"}]>>
railway_track_templates == {"Rt"}
routemap_templates == {"Routemap"}
summary_prefix == "Replace BSicons"

\* Replacement.__str__: the two names with U+2192 between them.
Arrow == "→"
ReplacementStr(r) == r.old \o Arrow \o r.new

\* The orders in which a set may be gone through: each element once.
Orders(set) ==
    {f \in [1..Cardinality(set) -> set] : \A e \in set : \E k \in DOMAIN f : f[k] = e}

\* "{}: {}".format(summary_prefix, ", ".join(map(str, replacements))).
\* SummaryRepeated: a summary that names every replacement twice.
Rendered(order) == [k \in DOMAIN order |-> ReplacementStr(order[k])]
SummaryRepeated(prefix, order) ==
    prefix \o ": " \o Join(", ", Rendered(order \o order))
Summary(prefix, order) == prefix \o ": " \o Join(", ", Rendered(order))

\* The prefix of the Template namespace.
TemplateNamespace == "Template"

\* pywikibot.Page(site, name, ns=TEMPLATE).title(with_ns=False), or the error.
WithoutTemplateNs(t, colon) ==
    IF colon > 0 /\ UpperFirst(Strip(Slice(t, 1, colon - 1))) = TemplateNamespace
    THEN From(t, colon + 1) ELSE t
TemplateUnderscore(t) ==
    UpperFirst(TrimUnderscores(Squeeze(Replace(Strip(WithoutTemplateNs(t, Find(t, ":"))),
                                               " ", "_"))))
TemplateChecked(t) ==
    IF InvalidTitle(t) THEN [ok |-> FALSE, err |-> "InvalidTitleError"]
    ELSE [ok |-> TRUE, title |-> Replace(t, "_", " ")]
TemplatePage(name) == TemplateChecked(TemplateUnderscore(Strip(name)))

\* replace_template_files, the body of the loop: the strategy of the template
TemplateParams(node, st) ==
    [node |-> TemplateNode(node.name, st.params), repl |-> st.repl]
TemplateStrategy(node, repl, template, groups, map, site) ==
    IF ~template.ok THEN [node |-> node, repl |-> repl]
    ELSE IF template.title \in routemap_templates
    THEN TemplateParams(node, replace_routemap_files(
                                  [params |-> node.params, repl |-> repl], map, site))
    ELSE IF template.title \in railway_track_templates
    THEN TemplateParams(node, replace_rt_template_files(
                                  [params |-> node.params, repl |-> repl], map, site))
    ELSE TemplateParams(node, replace_bs_template_files(
                                  [params |-> node.params, repl |-> repl],
                                  template.title, groups, map, site))

\* replace_template_files: for tpl in wikicode.ifilter_templates(), from the
\* k-th node on
RECURSIVE TemplateNodes(_, _, _, _, _)
TemplateNodes(st, k, groups, map, site) ==
    IF k > Len(st.code) THEN st
    ELSE TemplateNodes(IF st.code[k].t = "tpl"
                       THEN NodeDone(st, k,
                                     TemplateStrategy(st.code[k], st.repl,
                                         TemplatePage(removeDisabledParts(st.code[k].name)),
                                         groups, map, site))
                       ELSE st,
                       k + 1, groups, map, site)
replace_template_files(st, groups, map, site) == TemplateNodes(st, 1, groups, map, site)

(***************************************************************************)
(* bsiconsbotscripts/replacer.py: the configuration of a site.  A JSON     *)
(* value is a record of its type t, its strings s (the string itself, or   *)
(* the strings of an array) and its items d (of an object); a JSON object, *)
(* and the dict the code takes it for, is the sequence of its items in     *)
(* insertion order.                                                        *)
(***************************************************************************)

JStr(x) == [t |-> "str", s |-> <<x>>, d |-> <<>>]
JList(xs) == [t |-> "list", s |-> xs, d |-> <<>>]
JDict(items) == [t |-> "dict", s |-> <<>>, d |-> items]
JNum == [t |-> "num", s |-> <<>>, d |-> <<>>]
Item(key, value) == [key |-> key, value |-> value]

\* key in d, d[key], d[key] = value, d.update(other) from the k-th item on
HasKey(d, key) == \E k \in 1..Len(d) : d[k].key = key
GetKey(d, key) == d[CHOOSE k \in 1..Len(d) : d[k].key = key].value
SetKey(d, key, value) ==
    IF HasKey(d, key)
    THEN [k \in 1..Len(d) |-> IF d[k].key = key THEN Item(key, value) ELSE d[k]]
    ELSE Append(d, Item(key, value))
RECURSIVE Update(_, _, _)
Update(d, other, k) ==
    IF k > Len(other) THEN d
    ELSE Update(SetKey(d, other[k].key, other[k].value), other, k + 1)

\* The templates of the wikis of the model: the pages that exist, and the
\* one of them that is a redirect.
ExistingTemplates == {"BS", "BSx", "Rt", "Routemap", "BS2"}
TemplateRedirectTarget(title) == IF title = "BS2" THEN "BS" ELSE title

\* bsiconsbot.page.get_template_pages of the pages of the titles: the page
\* (the target, of a redirect) if it exists, and the redirects to it.
TemplateBacklinks(target) ==
    {t \in ExistingTemplates : t # target /\ TemplateRedirectTarget(t) = target}
TemplatePagesOf(target) ==
    IF target \in ExistingTemplates THEN {target} \cup TemplateBacklinks(target)
    ELSE {}
get_template_pages(titles) ==
    UNION {TemplatePagesOf(TemplateRedirectTarget(TemplatePage(titles[k]).title)) :
              k \in 1..Len(titles)}

\* validate_local_config, a list of templates (railway_track_templates,
\* routemap_templates, the templates of a prefix of BS_templates): a string
\* is a list of one; what is neither string nor list makes the result
\* False, and is iterated all the same: an object gives its keys, a number
\* raises TypeError.  A title pywikibot refuses raises InvalidTitleError
\* when get_template_pages asks whether the page is a redirect.
Wrapped(j) == IF j.t = "str" THEN JList(j.s) ELSE j
Titles(j) == IF j.t = "list" THEN j.s ELSE [k \in 1..Len(j.d) |-> j.d[k].key]
TemplatesOfTitles(j, titles) ==
    IF \E k \in 1..Len(titles) : ~TemplatePage(titles[k]).ok
    THEN [result |-> FALSE, err |-> "InvalidTitleError", pages |-> {}]
    ELSE [result |-> j.t \in {"str", "list"}, err |-> "",
          pages |-> get_template_pages(titles)]
TemplatesIterated(j, wrapped) ==
    IF wrapped.t = "num"
    THEN [result |-> FALSE, err |-> "TypeError", pages |-> {}]
    ELSE TemplatesOfTitles(j, Titles(wrapped))
TemplatesChecked(j) == TemplatesIterated(j, Wrapped(j))

\* validate_local_config, BS_templates: a string or a list is the templates
\* of the prefix ""; what is no object after that has no items()
\* (AttributeError).  The loop over the items, from the k-th on.
BSWrapped(j) ==
    IF j.t = "str" THEN JDict(<<Item("", JList(j.s))>>)
    ELSE IF j.t = "list" THEN JDict(<<Item("", j)>>)
    ELSE j
BSGroup(acc, prefix, c) ==
    [result |-> acc.result /\ c.result, err |-> c.err,
     map |-> IF c.err = "" THEN Append(acc.map, [prefix |-> prefix, templates |-> c.pages])
             ELSE acc.map]
RECURSIVE BSGroups(_, _, _)
BSGroups(items, k, acc) ==
    IF k > Len(items) \/ acc.err # "" THEN acc
    ELSE BSGroups(items, k + 1,
                  BSGroup(acc, items[k].key, TemplatesChecked(items[k].value)))
BSChecked(j) ==
    IF j.t = "num" THEN [result |-> FALSE, err |-> "AttributeError", map |-> <<>>]
    ELSE BSGroups(BSWrapped(j).d, 1, [result |-> TRUE, err |-> "", map |-> <<>>])

\* validate_local_config: what it has after no item, and after one more:
\* the result so far, the error raised, whether summary_prefix was seen,
\* and the values the config has got.
ValidationStart ==
    [result |-> TRUE, err |-> "", has_keys |-> FALSE, BS_templates |-> <<>>,
     railway_track_templates |-> {}, routemap_templates |-> {},
     summary_prefix |-> ""]
ValidatedBS(acc, c) ==
    [acc EXCEPT !.result = acc.result /\ c.result, !.err = c.err,
                !.BS_templates = c.map]
ValidatedRt(acc, c) ==
    [acc EXCEPT !.result = acc.result /\ c.result, !.err = c.err,
                !.railway_track_templates = c.pages]
ValidatedRoutemap(acc, c) ==
    [acc EXCEPT !.result = acc.result /\ c.result, !.err = c.err,
                !.routemap_templates = c.pages]
ValidatedPrefix(acc, j) ==
    [acc EXCEPT !.result = acc.result /\ j.t = "str", !.has_keys = TRUE,
                !.summary_prefix = IF j.t = "str" THEN j.s[1] ELSE ""]
ValidatedItem(acc, key, value) ==
    IF key = "BS_templates" THEN ValidatedBS(acc, BSChecked(value))
    ELSE IF key = "railway_track_templates" THEN ValidatedRt(acc, TemplatesChecked(value))
    ELSE IF key = "routemap_templates"
    THEN ValidatedRoutemap(acc, TemplatesChecked(value))
    ELSE IF key = "summary_prefix" THEN ValidatedPrefix(acc, value)
    ELSE acc
RECURSIVE ValidatedItems(_, _, _)
ValidatedItems(config, k, acc) ==
    IF k > Len(config) \/ acc.err # "" THEN acc
    ELSE ValidatedItems(config, k + 1,
                        ValidatedItem(acc, config[k].key, config[k].value))

\* validate_local_config, after the loop: the required key, and a template
\* of some kind (a dict with a prefix is true in Python, whatever the set of
\* the prefix holds).  NoTemplateCheck: a validation that lacks the latter.
HasTemplates(acc) ==
    acc.BS_templates # <<>> \/ acc.railway_track_templates # {}
        \/ acc.routemap_templates # {}
NoTemplateCheck(acc) ==
    IF acc.err # "" THEN acc
    ELSE [acc EXCEPT !.result = acc.result /\ acc.has_keys]
ValidationEnd(acc) ==
    IF acc.err # "" THEN acc
    ELSE [acc EXCEPT !.result = acc.result /\ acc.has_keys /\ HasTemplates(acc)]
validate_local_config(config) ==
    ValidationEnd(ValidatedItems(config, 1, ValidationStart))

\* site_config, what self._config[site] is: not there ("unset"), None, the
\* validated config ("valid"), or the config validate_local_config was
\* at when it raised ("raw").  CacheForget: a cache that keeps no None.
\* CacheUnchecked: a cache that takes the config validate_local_config
\* raised on for a valid one.
Unset == [state |-> "unset", config |-> ValidationStart]
NoneConfig == [state |-> "none", config |-> ValidationStart]
CacheUnchecked(v) ==
    IF v.err # "" \/ v.result THEN [state |-> "valid", config |-> v] ELSE NoneConfig
CacheForget(v) ==
    IF v.err # "" THEN [state |-> "raw", config |-> v]
    ELSE IF v.result THEN [state |-> "valid", config |-> v] ELSE Unset
Cached(v) ==
    IF v.err # "" THEN [state |-> "raw", config |-> v]
    ELSE IF v.result THEN [state |-> "valid", config |-> v] ELSE NoneConfig

\* site_config, the first time for a site: the config of the run with the
\* site's local config over it, validated.
Resolved(config, local) == Cached(validate_local_config(Update(config, local, 1)))

\* unmask_text (the while loop as a recursion: it ends on the texts whose
\* markers the mask holds)
RECURSIVE UnmaskWhile(_, _)
UnmaskWhile(text, mask) ==
    IF MarkerFound(text) THEN UnmaskWhile(UnmaskPass(text, mask), mask) ELSE text
unmask_text(text, mask) == UnmaskWhile(UnmaskPipe(text), mask)

\* treat_page from mask_html_tags to unmask_text: the text put_current is
\* given, and the replacements of the page.
TreatDone(st, mask) == [text |-> unmask_text(Str(st.code), mask), repl |-> st.repl]
TreatParsed(st, groups, map, site) ==
    replace_template_files(replace_gallery_files(st, map, site), groups, map, site)
ParsedState(l) == [code |-> Parse(mask_pipe_mw(l.text)), repl |-> l.repl]
TreatLinked(l, mask, groups, map, site) ==
    TreatDone(TreatParsed(ParsedState(l), groups, map, site), mask)
TreatMasked(m, repl, groups, map, site) ==
    TreatLinked(replace_file_links(m.text, repl, map, site), m.mask, groups, map, site)
treat_text(text, repl, groups, map, site) ==
    TreatMasked(mask_html_tags(text, EmptyMask), repl, groups, map, site)

(***************************************************************************)
(* process_options: the replacement map is built from the redirects of    *)
(* the config (a frozenset of pages of Commons, gone through in any       *)
(* order) and from its replacement_map (a dict, in its order), one entry   *)
(* a step.                                                                 *)
(***************************************************************************)

\* The pages the redirects of the config may hold, and what the wiki has
\* for each: the page it redirects to, itself for a redirect in a circle,
\* nothing for a page that is no redirect.
RedirectPages ==
    {"File:BSicon_a.svg", "File:BSicon_b.svg", "File:BSicon_c.svg",
     "File:BSicon_loop.svg", "File:Foo.svg", "File:BSicon_d.svg", "Template:X"}
RedirectsTo(title) ==
    IF title = "File:BSicon_a.svg" THEN "File:BSicon_b.svg"
    ELSE IF title = "File:BSicon_b.svg" THEN "File:BSicon_c.svg"
    ELSE IF title = "File:BSicon_loop.svg" THEN "File:BSicon_loop.svg"
    ELSE IF title = "File:Foo.svg" THEN "File:BSicon_c.svg"
    ELSE IF title = "File:BSicon_d.svg" THEN "File:Other.svg"
    ELSE ""

\* page.getRedirectTarget() of pywikibot: the page the redirect points to,
\* a redirect or not (pywikibot does not follow a double redirect), or the
\* error raised.
getRedirectTarget(title) ==
    IF RedirectsTo(title) = "" THEN [ok |-> FALSE, err |-> "IsNotRedirectPageError"]
    ELSE IF RedirectsTo(title) = title THEN [ok |-> FALSE, err |-> "CircularRedirectError"]
    ELSE [ok |-> TRUE, title |-> RedirectsTo(title)]

\* The entries the replacement_map of the config may hold.
MapEntries ==
    {<<"BSicon_x.svg", "BSicon_y.svg">>, <<"BSicon_a.svg", "BSicon_z.svg">>,
     <<"BSicon_[.svg", "BSicon_y.svg">>, <<"Foo.svg", "BSicon_y.svg">>,
     <<"BSicon_x.svg", "bar">>}

\* How many redirects and how many entries the config has.
MaxRedirects == 2
MaxItems == 2

\* except (pywikibot.exceptions.IsNotRedirectPageError, ValueError) and
\* except ValueError
RedirectCaught(err) == err \in {"IsNotRedirectPageError", "ValueError"}
ExplicitCaught(err) == err = "ValueError"

\* The body of each loop: the page, then the target, then the assignment;
\* the first error ends it.
Entry(page, target) ==
    IF ~page.ok THEN [ok |-> FALSE, err |-> page.err]
    ELSE IF ~target.ok THEN [ok |-> FALSE, err |-> target.err]
    ELSE [ok |-> TRUE, page |-> page, target |-> target]
TargetPage(site, target) ==
    IF target.ok THEN BSiconPage(site, target.title, "") ELSE target
RedirectEntry(site, title) ==
    Entry(BSiconPage(site, title, ""), TargetPage(site, getRedirectTarget(title)))
ExplicitEntry(site, item) ==
    Entry(BSiconPage(site, item[1], ""), BSiconPage(site, item[2], ""))

(***************************************************************************)
(* bsiconsbotscripts/reporter.py: the log pages of a month.  A page is a   *)
(* record of whether it exists, of its text and of the number of further   *)
(* characters of the text that are not written out (the rows of the tables *)
(* of its sections).                                                       *)
(***************************************************************************)

\* get_headers: ^=+ *(.+?) *=+ *$ with re.M, whose ^ and $ are the ends of
\* the lines of the text; the pattern matches no newline.
HeaderRegex ==
    <<Bol, Plus(<<Lit("=")>>), Star(<<Lit(" ")>>),
      Grp(1, <<LazyPlus(<<Dot(FALSE)>>)>>), Star(<<Lit(" ")>>),
      Plus(<<Lit("=")>>), Star(<<Lit(" ")>>), Eol>>
RECURSIVE HeadersOf(_, _)
HeadersOf(lines, k) ==
    IF k > Len(lines) THEN <<>>
    ELSE (IF MatchAt(HeaderRegex, lines[k], 1).ok
          THEN <<Group(MatchAt(HeaderRegex, lines[k], 1), 1)>> ELSE <<>>)
         \o HeadersOf(lines, k + 1)
get_headers(text) == HeadersOf(SplitLines(text), 1)

\* x in seq, of a list
Listed(x, seq) == \E i \in 1..Len(seq) : seq[i] = x

\* A page that does not exist (its text is ""), and len(page.text).
MissingPage == [exists |-> FALSE, text |-> "", more |-> 0]
TextLen(page) == Len(page.text) + page.more

\* if len(page.text) < 1e6: break
PageLimit == 1000000

\* get_page_from_size: the first page of the series, from the i-th on, that
\* does not exist or is shorter than the limit; the pages after those of the
\* model do not exist.
RECURSIVE PageFromSize(_, _)
PageFromSize(pages, i) ==
    IF i > Len(pages) \/ ~pages[i].exists \/ TextLen(pages[i]) < PageLimit
    THEN i
    ELSE PageFromSize(pages, i + 1)

\* log_page.save(text="{{nobots}}{{<prefix>}}", summary="Create log page")
LogPrefix == "User:Bot/log"
CreatedPage == [exists |-> TRUE, text |-> "{{nobots}}{{" \o LogPrefix \o "}}", more |-> 0]

\* The text of the section: the table of the rows, of which the model
\* writes the frame and counts the rest, or the line that says there is
\* none.
EmptyLog(kind) == IF kind = "edits" THEN ": No changes" ELSE ": None"
LogText(kind, rows) == IF rows = 0 THEN EmptyLog(kind) ELSE "{|\n|}"

\* log_page.save(text=log_text, section="new", summary=date): MediaWiki
\* appends the section under a header of the summary.
WithSection(page, date, text, rows) ==
    [exists |-> TRUE,
     text |-> page.text \o "\n\n== " \o date \o " ==\n\n" \o text,
     more |-> page.more + rows]

(***************************************************************************)
(* The state.  Each part of the program is exercised by a specification of *)
(* its own; the variables of the other parts stay as they start.           *)
(***************************************************************************)

VARIABLES
    m_orig,     \* the text given to mask_html_tags
    m_text,     \* the text as it is now
    m_mask,     \* the mask store
    m_pc        \* "start", "html", "pipe", "loop" (in unmask_text's loop), "done"

maskVars == <<m_orig, m_text, m_mask, m_pc>>

VARIABLES
    i_map,      \* bsicons_map: a dict from icon to icon
    i_args,     \* the arguments of the last BSiconPage(...) for the lookup
    i_icon,     \* what that construction gave: the icon or the error
    i_looked,   \* whether the icon has been looked up in the map
    i_got       \* the result of bsicons_map.get(icon, None)

iconVars == <<i_map, i_args, i_icon, i_looked, i_got>>

VARIABLES
    t_tpl,      \* the title of the template of the transclusion at hand
    t_map,      \* bsicons_map
    t_orig,     \* tpl.params as the page has them
    t_params,   \* tpl.params as they are now
    t_repl,     \* current_page.replacements
    t_pc        \* "start", "done"

tplVars == <<t_tpl, t_map, t_orig, t_params, t_repl, t_pc>>

VARIABLES
    p_map,      \* bsicons_map
    p_enabled,  \* the site has a valid config and is not disabled
    p_page,     \* current_page.text
    p_has,      \* hasattr(current_page, "replacements")
    p_repl,     \* current_page.replacements
    p_orig,     \* current_page.text as it was when treat_page was entered
    p_before,   \* current_page.replacements as they were then
    p_arg,      \* the text replace_file_links was called with
    p_text,     \* text, in treat_page and in unmask_text
    p_mask,     \* mask
    p_code,     \* wikicode
    p_saves,    \* how often the page has been saved
    p_summary,  \* the summary of the last save
    p_runs,     \* how often the page has been given to treat_page
    p_pc        \* "start", "links", "parse", "gallery", "templates", "unmask",
                \* "loop" (in unmask_text's loop), "done"

pageVars ==
    <<p_map, p_enabled, p_page, p_has, p_repl, p_orig, p_before, p_arg, p_text,
      p_mask, p_code, p_saves, p_summary, p_runs, p_pc>>

VARIABLES
    r_always,   \* the option -always
    r_global,   \* self.opt.config
    r_local,    \* of each site: the JSON object of its local config page
    r_switch,   \* of each site: its kill-switch page
    r_config,   \* self._config
    r_disabled, \* self._disabled
    r_found,    \* the sites whose kill-switch page was found with content
    r_resolved, \* of each site: how often its config has been resolved
    r_fetched,  \* of each site: how often its kill-switch page was fetched
    r_seen,     \* of each site: how many of its pages treat_page was given
    r_rewritten,\* of each site: how many of its pages were rewritten
    r_saved,    \* of each site: how many of its pages were saved
    r_failed,   \* how many saves have failed
    r_count,    \* how many pages the generator has given
    r_site,     \* current_page.site
    r_text,     \* current_page.text
    r_new,      \* the text put_current is given
    r_err,      \* the exception that ended the run
    r_pc        \* "next", "config", "switch", "rewrite", "save", "ended"

runVars ==
    <<r_always, r_global, r_local, r_switch, r_config, r_disabled, r_found,
      r_resolved, r_fetched, r_seen, r_rewritten, r_saved, r_failed, r_count,
      r_site, r_text, r_new, r_err, r_pc>>

VARIABLES
    b_config,   \* the redirects and the replacement_map of the config
    b_redirects,\* the redirects the first loop has not come to yet
    b_k,        \* the entry of replacement_map the second loop is at
    b_map,      \* bsicons_map
    b_gen,      \* the icons whose usages the generator chains
    b_err,      \* the exception that left process_options
    b_pc        \* "redirects", "explicit", "done", "raised"

buildVars == <<b_config, b_redirects, b_k, b_map, b_gen, b_err, b_pc>>

VARIABLES
    g_map,      \* bsicons_map
    g_orig,     \* wikicode as replace_gallery_files was given it
    g_code,     \* wikicode
    g_before,   \* current_page.replacements as they were then
    g_repl,     \* current_page.replacements
    g_k,        \* the node the loop over the tags is at
    g_pc        \* "tags", "done"

galVars == <<g_map, g_orig, g_code, g_before, g_repl, g_k, g_pc>>

VARIABLES
    l_kind,     \* the report: "log" (output_log), "move", "edits"
    l_pages,    \* the pages of the month: the first, then (02), (03), ...
    l_date,     \* start.date().isoformat()
    l_page,     \* log_page: its place among the pages of the month
    l_runs,     \* how many runs of the reporter have begun
    l_pc        \* "off", "idle", "first", "size", "second", "create", "save"

logVars == <<l_kind, l_pages, l_date, l_page, l_runs, l_pc>>

vars ==
    <<maskVars, iconVars, tplVars, pageVars, runVars, buildVars, galVars,
      logVars>>

NoArgs == [site |-> "", title |-> "", name |-> ""]

MaskIdle == m_orig = "" /\ m_text = "" /\ m_mask = EmptyMask /\ m_pc = "idle"
IconIdle == i_map = <<>> /\ i_args = NoArgs /\ i_icon = None /\ i_looked = FALSE /\ i_got = None
TplIdle ==
    /\ t_tpl = "" /\ t_map = <<>> /\ t_orig = <<>> /\ t_params = <<>>
    /\ t_repl = {} /\ t_pc = "idle"
PageIdle ==
    /\ p_map = <<>> /\ p_enabled = FALSE /\ p_page = "" /\ p_has = FALSE
    /\ p_repl = {} /\ p_orig = "" /\ p_before = {} /\ p_arg = "" /\ p_text = ""
    /\ p_mask = EmptyMask /\ p_code = <<>> /\ p_saves = 0 /\ p_summary = ""
    /\ p_runs = 0 /\ p_pc = "idle"

RunIdle ==
    /\ r_always = FALSE /\ r_global = <<>> /\ r_local = <<>> /\ r_switch = <<>>
    /\ r_config = <<>> /\ r_disabled = {} /\ r_found = {} /\ r_resolved = <<>>
    /\ r_fetched = <<>> /\ r_seen = <<>> /\ r_rewritten = <<>> /\ r_saved = <<>>
    /\ r_failed = 0 /\ r_count = 0 /\ r_site = "" /\ r_text = "" /\ r_new = ""
    /\ r_err = "" /\ r_pc = "idle"
BuildIdle ==
    /\ b_config = <<>> /\ b_redirects = {} /\ b_k = 0 /\ b_map = <<>>
    /\ b_gen = {} /\ b_err = "" /\ b_pc = "idle"
GalIdle ==
    /\ g_map = <<>> /\ g_orig = <<>> /\ g_code = <<>> /\ g_before = {}
    /\ g_repl = {} /\ g_k = 0 /\ g_pc = "idle"
LogIdle ==
    /\ l_kind = "" /\ l_pages = <<>> /\ l_date = "" /\ l_page = 0
    /\ l_runs = 0 /\ l_pc = "off"

(***************************************************************************)
(* The masking of one text and its unmasking, step by step: mask_html_tags,*)
(* then (in treat_page) mask_pipe_mw, then unmask_text, whose while loop   *)
(* takes one step per pass.                                                *)
(***************************************************************************)

\* The pieces the texts to mask are made of, and how many make a text.
MaskPieces ==
    <<"<a>", "<bb>", "<c d=\"<a>\">", "<e f='<c d=\"<a>\">'/>",
      "bot***masked***1", "{{!}}", "x">>
MaxMaskPieces == 3

MaskTexts ==
    {Concat([k \in DOMAIN f |-> MaskPieces[f[k]]]) :
        f \in UNION {[1..n -> 1..Len(MaskPieces)] : n \in 0..MaxMaskPieces}}

MaskInit ==
    /\ m_orig \in MaskTexts
    /\ m_text = m_orig
    /\ m_mask = EmptyMask
    /\ m_pc = "start"
    /\ IconIdle
    /\ TplIdle
    /\ PageIdle
    /\ RunIdle
    /\ BuildIdle
    /\ GalIdle
    /\ LogIdle

\* text, mask = mask_html_tags(text)
MaskHtmlTags ==
    /\ m_pc = "start"
    /\ LET r == mask_html_tags(m_text, m_mask) IN
       /\ m_text' = r.text
       /\ m_mask' = r.mask
    /\ m_pc' = "html"
    /\ UNCHANGED m_orig
    /\ UNCHANGED <<iconVars, tplVars, pageVars, runVars, buildVars,
                   galVars, logVars>>

\* text = mask_pipe_mw(text)
MaskPipeMw ==
    /\ m_pc = "html"
    /\ m_text' = mask_pipe_mw(m_text)
    /\ m_pc' = "pipe"
    /\ UNCHANGED <<m_orig, m_mask>>
    /\ UNCHANGED <<iconVars, tplVars, pageVars, runVars, buildVars,
                   galVars, logVars>>

\* unmask_text is called: its first line.
UnmaskStart ==
    /\ m_pc \in {"html", "pipe"}
    /\ m_text' = UnmaskPipe(m_text)
    /\ m_pc' = "loop"
    /\ UNCHANGED <<m_orig, m_mask>>
    /\ UNCHANGED <<iconVars, tplVars, pageVars, runVars, buildVars,
                   galVars, logVars>>

\* One pass of the while loop of unmask_text.
UnmaskLoop ==
    /\ m_pc = "loop"
    /\ MarkerFound(m_text)
    /\ m_text' = UnmaskPass(m_text, m_mask)
    /\ UNCHANGED <<m_orig, m_mask, m_pc>>
    /\ UNCHANGED <<iconVars, tplVars, pageVars, runVars, buildVars,
                   galVars, logVars>>

\* The while loop ends: unmask_text returns the text.
UnmaskReturn ==
    /\ m_pc = "loop"
    /\ ~MarkerFound(m_text)
    /\ m_pc' = "done"
    /\ UNCHANGED <<m_orig, m_text, m_mask>>
    /\ UNCHANGED <<iconVars, tplVars, pageVars, runVars, buildVars,
                   galVars, logVars>>

MaskNext == MaskHtmlTags \/ MaskPipeMw \/ UnmaskStart \/ UnmaskLoop \/ UnmaskReturn

(***************************************************************************)
(* Icon identities at work: entries are put into the replacement map as    *)
(* process_options does, an icon is constructed from a title or a name     *)
(* found on a page of some site, and looked up in the map.                 *)
(***************************************************************************)

Sites == {"commons", "cs"}

\* The titles and names icons are constructed from.
IconTitles ==
    {"BSicon_exABC.svg", "BSicon exABC.svg", "File:BSicon_exABC.svg",
     "bSicon_a.svg", "BSicon_a.svg", "Image:BSicon a.svg", "BSicon_a.png",
     "Icon_a.svg", "BSicon_.svg", "a.svg", "", "BSicon_a|b.svg"}
IconNames == {"a", "exABC", "b c", "[", ""}

\* The titles of the explicit replacement map.
MapTitles == {"BSicon_a.svg", "BSicon_exABC.svg", "File:BSicon b c.svg", "BSicon_a.png"}
MaxMapEntries == 2

IconInit ==
    /\ i_map = <<>>
    /\ i_args = NoArgs
    /\ i_icon = None
    /\ i_looked = FALSE
    /\ i_got = None
    /\ MaskIdle
    /\ TplIdle
    /\ PageIdle
    /\ RunIdle
    /\ BuildIdle
    /\ GalIdle
    /\ LogIdle

\* process_options, one entry of the explicit map: both sides must be icons.
\* The map is complete before the first page is read.
AddEntry ==
    /\ i_icon = None
    /\ Len(i_map) < MaxMapEntries
    /\ \E key \in MapTitles, value \in MapTitles :
          i_map' = MapItem(i_map, BSiconPage("commons", key, ""),
                           BSiconPage("commons", value, ""))
    /\ UNCHANGED <<i_args, i_icon, i_looked, i_got>>
    /\ UNCHANGED <<maskVars, tplVars, pageVars, runVars, buildVars,
                   galVars, logVars>>

\* BSiconPage(site, title) or BSiconPage(site, name=name)
Construct ==
    /\ \E site \in Sites, title \in IconTitles, name \in IconNames :
          /\ (title = "" \/ name = "")
          /\ i_args' = [site |-> site, title |-> title, name |-> name]
          /\ i_icon' = BSiconPage(site, title, name)
    /\ i_looked' = FALSE
    /\ i_got' = None
    /\ UNCHANGED i_map
    /\ UNCHANGED <<maskVars, tplVars, pageVars, runVars, buildVars,
                   galVars, logVars>>

\* new_icon = self.opt.bsicons_map.get(current_icon, None)
Lookup ==
    /\ i_icon.ok
    /\ ~i_looked
    /\ i_got' = DictGet(i_map, i_icon)
    /\ i_looked' = TRUE
    /\ UNCHANGED <<i_map, i_args, i_icon>>
    /\ UNCHANGED <<maskVars, tplVars, pageVars, runVars, buildVars,
                   galVars, logVars>>

IconNext == AddEntry \/ Construct \/ Lookup

(***************************************************************************)
(* One transclusion of a template on a page of the site "cs": the body of  *)
(* the loop of replace_template_files picks the strategy by the template   *)
(* and the strategy rewrites the parameters.                               *)
(***************************************************************************)

\* The replacement maps of the model, as the config gives them.
ReplacementMaps ==
    << << <<"BSicon_xFoo.svg", "BSicon_yBar.svg">>,
          <<"BSicon_xQux.svg", "BSicon_xQuy.svg">>,
          <<"BSicon_exlABC.svg", "BSicon_exlXYZ.svg">>,
          <<"BSicon_lABC.svg", "BSicon_mABC.svg">>,
          <<"BSicon_foo.svg", "BSicon_bar.svg">> >>,
       << <<"BSicon_xFoo.svg", "BSicon_xBaz.svg">>,
          <<"BSicon_Foo.svg", "BSicon_Bar.svg">>,
          <<"BSicon_exlABC.svg", "BSicon_lQRS.svg">>,
          <<"BSicon_lABC.svg", "BSicon_lXYZ.svg">>,
          <<"BSicon_foo.svg", "BSicon_bar.svg">>,
          <<"BSicon_bar.svg", "BSicon_baz.svg">> >>,
       << <<"BSicon_xFoo.svg", "BSicon_x.svg">>,
          <<"BSicon_exlABC.svg", "BSicon_mABC.svg">>,
          <<"BSicon_lABC.svg", "BSicon_exlABC.svg">>,
          <<"BSicon_lQ.svg", "BSicon_lexQ.svg">>,
          <<"BSicon_foo.svg", "BSicon_foo2.svg">> >> >>

\* The parameters the transclusions are made of, by the kind of template.
BsParamPool ==
    <<[name |-> "1", value |-> "Foo"], [name |-> "1", value |-> " Foo\n"],
      [name |-> " 1 ", value |-> "Foo<!--c-->"], [name |-> "2", value |-> "xFoo"],
      [name |-> "2", value |-> "Foo"], [name |-> "1", value |-> "xFoo"],
      [name |-> "3", value |-> "Nil"], [name |-> "1", value |-> ""],
      [name |-> "1", value |-> "Qux"], [name |-> "2", value |-> "fo<!--c-->o"]>>
RtParamPool ==
    <<[name |-> "typ", value |-> "exABC"], [name |-> "typ", value |-> "ABC"],
      [name |-> "Typ", value |-> " exABC\n"], [name |-> "2", value |-> "lABC"],
      [name |-> "3", value |-> "exlABC"], [name |-> "typ", value |-> "ex"],
      [name |-> "4", value |-> "foo"], [name |-> "typ", value |-> "lABC"],
      [name |-> "typ", value |-> "Q"]>>
RoutemapParamPool ==
    <<[name |-> "map", value |-> "\nfoo!~"], [name |-> "map2", value |-> "\nfoo\nbar\n"],
      [name |-> "1", value |-> "\\foo\\bar\\"], [name |-> "x", value |-> "\nfoo!~"],
      [name |-> " map ", value |-> "! !foo~~bar!@"], [name |-> "map", value |-> "\n foo \n"],
      [name |-> "map", value |-> "\nfoo\nfoo\n"], [name |-> "2", value |-> "foo"],
      [name |-> "map3", value |-> "\nfoo<!--foo-->\n"]>>

ParamPool(template) ==
    IF template \in routemap_templates THEN RoutemapParamPool
    ELSE IF template \in railway_track_templates THEN RtParamPool
    ELSE BsParamPool

MaxParams == 2

ParamLists(pool) ==
    {[k \in DOMAIN f |-> pool[f[k]]] :
        f \in UNION {[1..n -> 1..Len(pool)] : n \in 1..MaxParams}}

TplInit ==
    /\ t_tpl \in {"BSx", "BS", "Rt", "Routemap", "Infobox"}
    /\ \E k \in 1..Len(ReplacementMaps) :
          t_map = ExplicitMap(<<>>, "commons", ReplacementMaps[k], 1)
    /\ t_orig \in ParamLists(ParamPool(t_tpl))
    /\ t_params = t_orig
    /\ t_repl = {}
    /\ t_pc = "start"
    /\ MaskIdle
    /\ IconIdle
    /\ PageIdle
    /\ RunIdle
    /\ BuildIdle
    /\ GalIdle
    /\ LogIdle

\* if template in self.site_config["routemap_templates"]
ReplaceRoutemap ==
    /\ t_pc = "start"
    /\ t_tpl \in routemap_templates
    /\ LET st == replace_routemap_files([params |-> t_params, repl |-> t_repl],
                                        t_map, "cs")
       IN t_params' = st.params /\ t_repl' = st.repl
    /\ t_pc' = "done"
    /\ UNCHANGED <<t_tpl, t_map, t_orig, maskVars, iconVars, pageVars>>
    /\ UNCHANGED <<runVars, buildVars, galVars, logVars>>

\* elif template in self.site_config["railway_track_templates"]
ReplaceRt ==
    /\ t_pc = "start"
    /\ t_tpl \notin routemap_templates
    /\ t_tpl \in railway_track_templates
    /\ LET st == replace_rt_template_files([params |-> t_params, repl |-> t_repl],
                                           t_map, "cs")
       IN t_params' = st.params /\ t_repl' = st.repl
    /\ t_pc' = "done"
    /\ UNCHANGED <<t_tpl, t_map, t_orig, maskVars, iconVars, pageVars>>
    /\ UNCHANGED <<runVars, buildVars, galVars, logVars>>

\* else
ReplaceBs ==
    /\ t_pc = "start"
    /\ t_tpl \notin routemap_templates
    /\ t_tpl \notin railway_track_templates
    /\ LET st == replace_bs_template_files([params |-> t_params, repl |-> t_repl],
                                           t_tpl, BS_templates, t_map, "cs")
       IN t_params' = st.params /\ t_repl' = st.repl
    /\ t_pc' = "done"
    /\ UNCHANGED <<t_tpl, t_map, t_orig, maskVars, iconVars, pageVars>>
    /\ UNCHANGED <<runVars, buildVars, galVars, logVars>>

TplNext == ReplaceRoutemap \/ ReplaceRt \/ ReplaceBs

(***************************************************************************)
(* One page of the site "cs" in the hands of treat_page, step by step, and *)
(* given to treat_page again with the text the first treatment left: as    *)
(* the same page object, or as a new one that has no replacements yet.     *)
(***************************************************************************)

\* The pieces the page texts are made of, and how many make a text.
PagePieces ==
    <<"[[File:BSicon_foo.svg]]", "<!-- BSicon_foo.svg -->",
      "[[Image:BSicon bar.svg|thumb|x]]", "{{Routemap|map=\nfoo!~}}",
      "{{BSx|Foo{{!}}typ=exABC}}", "|***bot***=***param***|",
      "<gallery>\nBSicon_foo.svg|cap\n</gallery>", "***bot***masked***1***">>
MaxPagePieces == 2

PageTexts ==
    {Concat([k \in DOMAIN f |-> PagePieces[f[k]]]) :
        f \in UNION {[1..n -> 1..Len(PagePieces)] : n \in 0..MaxPagePieces}}

\* How often a page is treated.
MaxRuns == 2

PageInit ==
    /\ \E k \in 1..Len(ReplacementMaps) :
          p_map = ExplicitMap(<<>>, "commons", ReplacementMaps[k], 1)
    /\ p_enabled \in BOOLEAN
    /\ p_page \in PageTexts
    /\ p_has = FALSE
    /\ p_repl = {}
    /\ p_orig = p_page
    /\ p_before = {}
    /\ p_arg = ""
    /\ p_text = ""
    /\ p_mask = EmptyMask
    /\ p_code = <<>>
    /\ p_saves = 0
    /\ p_summary = ""
    /\ p_runs = 1
    /\ p_pc = "start"
    /\ MaskIdle
    /\ IconIdle
    /\ TplIdle
    /\ RunIdle
    /\ BuildIdle
    /\ GalIdle
    /\ LogIdle

\* if not self.site_config or self.site_disabled: return
TreatPageReturn ==
    /\ p_pc = "start"
    /\ ~p_enabled
    /\ p_pc' = "done"
    /\ UNCHANGED p_summary
    /\ UNCHANGED <<p_map, p_enabled, p_page, p_has, p_repl, p_orig, p_before,
                   p_arg, p_text, p_mask, p_code, p_saves, p_runs>>
    /\ UNCHANGED <<maskVars, iconVars, tplVars, runVars, buildVars,
                   galVars, logVars>>

\* text, mask = bsiconsbot.textlib.mask_html_tags(self.current_page.text)
TreatPageMask ==
    /\ p_pc = "start"
    /\ p_enabled
    /\ LET r == mask_html_tags(p_page, EmptyMask) IN
       /\ p_text' = r.text
       /\ p_mask' = r.mask
    /\ p_pc' = "links"
    /\ UNCHANGED p_summary
    /\ UNCHANGED <<p_map, p_enabled, p_page, p_has, p_repl, p_orig, p_before,
                   p_arg, p_code, p_saves, p_runs>>
    /\ UNCHANGED <<maskVars, iconVars, tplVars, runVars, buildVars,
                   galVars, logVars>>

\* text = self.replace_file_links(text)
ReplaceFileLinks ==
    /\ p_pc = "links"
    /\ p_arg' = p_text
    /\ LET r == replace_file_links(p_text, IF p_has THEN p_repl ELSE {}, p_map, "cs") IN
       /\ p_text' = r.text
       /\ p_repl' = r.repl
    /\ p_has' = TRUE
    /\ p_pc' = "parse"
    /\ UNCHANGED p_summary
    /\ UNCHANGED <<p_map, p_enabled, p_page, p_orig, p_before, p_mask, p_code,
                   p_saves, p_runs>>
    /\ UNCHANGED <<maskVars, iconVars, tplVars, runVars, buildVars,
                   galVars, logVars>>

\* text = bsiconsbot.textlib.mask_pipe_mw(text)
\* wikicode = mwparserfromhell.parse(text, skip_style_tags=True)
ParseText ==
    /\ p_pc = "parse"
    /\ p_text' = mask_pipe_mw(p_text)
    /\ p_code' = Parse(p_text')
    /\ p_pc' = "gallery"
    /\ UNCHANGED p_summary
    /\ UNCHANGED <<p_map, p_enabled, p_page, p_has, p_repl, p_orig, p_before,
                   p_arg, p_mask, p_saves, p_runs>>
    /\ UNCHANGED <<maskVars, iconVars, tplVars, runVars, buildVars,
                   galVars, logVars>>

\* self.replace_gallery_files(wikicode)
ReplaceGalleryFiles ==
    /\ p_pc = "gallery"
    /\ LET st == replace_gallery_files([code |-> p_code, repl |-> p_repl], p_map, "cs") IN
       /\ p_code' = st.code
       /\ p_repl' = st.repl
    /\ p_pc' = "templates"
    /\ UNCHANGED p_summary
    /\ UNCHANGED <<p_map, p_enabled, p_page, p_has, p_orig, p_before, p_arg,
                   p_text, p_mask, p_saves, p_runs>>
    /\ UNCHANGED <<maskVars, iconVars, tplVars, runVars, buildVars,
                   galVars, logVars>>

\* self.replace_template_files(wikicode)
ReplaceTemplateFiles ==
    /\ p_pc = "templates"
    /\ LET st == replace_template_files([code |-> p_code, repl |-> p_repl],
                                        BS_templates, p_map, "cs") IN
       /\ p_code' = st.code
       /\ p_repl' = st.repl
    /\ p_pc' = "unmask"
    /\ UNCHANGED p_summary
    /\ UNCHANGED <<p_map, p_enabled, p_page, p_has, p_orig, p_before, p_arg,
                   p_text, p_mask, p_saves, p_runs>>
    /\ UNCHANGED <<maskVars, iconVars, tplVars, runVars, buildVars,
                   galVars, logVars>>

\* bsiconsbot.textlib.unmask_text(str(wikicode), mask): its first line
PageUnmaskStart ==
    /\ p_pc = "unmask"
    /\ p_text' = UnmaskPipe(Str(p_code))
    /\ p_pc' = "loop"
    /\ UNCHANGED p_summary
    /\ UNCHANGED <<p_map, p_enabled, p_page, p_has, p_repl, p_orig, p_before,
                   p_arg, p_mask, p_code, p_saves, p_runs>>
    /\ UNCHANGED <<maskVars, iconVars, tplVars, runVars, buildVars,
                   galVars, logVars>>

\* One pass of the while loop of unmask_text.
PageUnmaskLoop ==
    /\ p_pc = "loop"
    /\ MarkerFound(p_text)
    /\ p_text' = UnmaskPass(p_text, p_mask)
    /\ UNCHANGED p_summary
    /\ UNCHANGED <<p_map, p_enabled, p_page, p_has, p_repl, p_orig, p_before,
                   p_arg, p_mask, p_code, p_saves, p_runs, p_pc>>
    /\ UNCHANGED <<maskVars, iconVars, tplVars, runVars, buildVars,
                   galVars, logVars>>

\* self.put_current(text, summary=...): pywikibot's put_current saves the
\* page unless the text is the text the page has.
PutCurrent ==
    /\ p_pc = "loop"
    /\ ~MarkerFound(p_text)
    /\ IF p_page = p_text
       THEN UNCHANGED <<p_page, p_saves, p_summary>>
       ELSE /\ p_page' = p_text
            /\ p_saves' = p_saves + 1
            /\ \E order \in Orders(p_repl) :
                  p_summary' = Summary(summary_prefix, order)
    /\ p_pc' = "done"
    /\ UNCHANGED <<p_map, p_enabled, p_has, p_repl, p_orig, p_before, p_arg,
                   p_text, p_mask, p_code, p_runs>>
    /\ UNCHANGED <<maskVars, iconVars, tplVars, runVars, buildVars,
                   galVars, logVars>>

\* The generator gives the page again: the page object treated before, or a
\* new page object of the same title.
NextTreatment ==
    /\ p_pc = "done"
    /\ p_runs < MaxRuns
    /\ \E fresh \in BOOLEAN :
          /\ p_has' = (p_has /\ ~fresh)
          /\ p_repl' = IF fresh THEN {} ELSE p_repl
    /\ p_before' = p_repl'
    /\ p_orig' = p_page
    /\ p_arg' = ""
    /\ p_text' = ""
    /\ p_mask' = EmptyMask
    /\ p_code' = <<>>
    /\ p_runs' = p_runs + 1
    /\ p_pc' = "start"
    /\ UNCHANGED p_summary
    /\ UNCHANGED <<p_map, p_enabled, p_page, p_saves>>
    /\ UNCHANGED <<maskVars, iconVars, tplVars, runVars, buildVars,
                   galVars, logVars>>

PageNext ==
    \/ TreatPageReturn \/ TreatPageMask \/ ReplaceFileLinks \/ ParseText
    \/ ReplaceGalleryFiles \/ ReplaceTemplateFiles \/ PageUnmaskStart
    \/ PageUnmaskLoop \/ PutCurrent \/ NextTreatment

(***************************************************************************)
(* A run of the bot over the pages the generator gives, of two sites:     *)
(* treat_page step by step, with the caches of the bot (self._config,     *)
(* self._disabled), the kill-switch pages, which anyone may edit between   *)
(* two pages, and the save, which may fail.  The pages hold file links and *)
(* tags, no templates.                                                     *)
(***************************************************************************)

RunSites == {"cs", "de"}

\* How many pages the generator gives.
MaxPages == 3

\* The config of the run (what validate_config and process_options left of
\* it) and the local configs of the sites.
GlobalConfigs ==
    {<<>>,
     <<Item("summary_prefix", JStr("Replace BSicons")),
       Item("railway_track_templates", JStr("Rt"))>>}
LocalConfigs ==
    {<<>>,
     <<Item("BS_templates", JStr("BS")), Item("summary_prefix", JStr("fix"))>>,
     <<Item("summary_prefix", JStr("fix"))>>,
     <<Item("routemap_templates", JList(<<"Routemap">>))>>,
     <<Item("BS_templates", JNum), Item("summary_prefix", JStr("fix"))>>,
     <<Item("summary_prefix", JStr("fix")),
       Item("railway_track_templates", JNum)>>,
     <<Item("routemap_templates", JStr("Routemap")), Item("summary_prefix", JNum)>>,
     <<Item("BS_templates", JStr("Nope")), Item("summary_prefix", JStr("fix")),
       Item("railway_track_templates", JList(<<>>))>>,
     <<Item("BS_templates",
            JDict(<<Item(" x", JList(<<"BSx">>)), Item("", JStr("BS2"))>>)),
       Item("railway_track_templates", JDict(<<Item("Rt", JStr("a"))>>)),
       Item("summary_prefix", JStr("fix"))>>}

\* The local configs the second site may have.
OtherLocalConfigs ==
    {<<>>, <<Item("BS_templates", JStr("BS")), Item("summary_prefix", JStr("fix"))>>}

\* The texts of the pages and the replacement map of the run.
RunTexts == {"[[File:BSicon_foo.svg]]", "x<br>"}
RunMap == ExplicitMap(<<>>, "commons", << <<"BSicon_foo.svg", "BSicon_bar.svg">> >>, 1)

\* What a kill-switch page may be: missing, blank, or with content.
NoPage == [exists |-> FALSE, content |-> ""]
SwitchPages ==
    {NoPage, [exists |-> TRUE, content |-> " \n"],
     [exists |-> TRUE, content |-> "stop\n"]}

\* What a save may come to.
SaveErrors == {"EditConflictError", "ServerError"}
SaveOutcomes == {"saved"} \cup SaveErrors

PerSite(v) == [s \in RunSites |-> v]
Counted(count, site) == [count EXCEPT ![site] = count[site] + 1]

RunInit ==
    /\ r_always \in BOOLEAN
    /\ r_global \in GlobalConfigs
    /\ r_local \in {f \in [RunSites -> LocalConfigs] : f["de"] \in OtherLocalConfigs}
    /\ r_switch = PerSite(NoPage)
    /\ r_config = PerSite(Unset)
    /\ r_disabled = {}
    /\ r_found = {}
    /\ r_resolved = PerSite(0)
    /\ r_fetched = PerSite(0)
    /\ r_seen = PerSite(0)
    /\ r_rewritten = PerSite(0)
    /\ r_saved = PerSite(0)
    /\ r_failed = 0
    /\ r_count = 0
    /\ r_site = ""
    /\ r_text = ""
    /\ r_new = ""
    /\ r_err = ""
    /\ r_pc = "next"
    /\ MaskIdle
    /\ IconIdle
    /\ TplIdle
    /\ PageIdle
    /\ BuildIdle
    /\ GalIdle
    /\ LogIdle

\* Someone edits the kill-switch page of a site.
EditSwitch ==
    /\ r_pc = "next"
    /\ \E s \in RunSites, p \in SwitchPages :
          /\ p # r_switch[s]
          /\ r_switch' = [r_switch EXCEPT ![s] = p]
    /\ UNCHANGED <<r_always, r_global, r_local, r_config, r_disabled, r_found,
                   r_resolved, r_fetched, r_seen, r_rewritten, r_saved, r_failed,
                   r_count, r_site, r_text, r_new, r_err, r_pc>>
    /\ UNCHANGED <<maskVars, iconVars, tplVars, pageVars, buildVars,
                   galVars, logVars>>

\* The generator gives the next page and run() calls treat_page.
NextPage ==
    /\ r_pc = "next"
    /\ r_count < MaxPages
    /\ r_site' \in RunSites
    /\ r_text' \in RunTexts
    /\ r_count' = r_count + 1
    /\ r_seen' = Counted(r_seen, r_site')
    /\ r_new' = ""
    /\ r_pc' = "config"
    /\ UNCHANGED <<r_always, r_global, r_local, r_switch, r_config, r_disabled,
                   r_found, r_resolved, r_fetched, r_rewritten, r_saved,
                   r_failed, r_err>>
    /\ UNCHANGED <<maskVars, iconVars, tplVars, pageVars, buildVars,
                   galVars, logVars>>

\* if not self.site_config ...: the property site_config; what
\* validate_local_config raises ends the run, None ends treat_page.
SiteConfigGot(entry) ==
    /\ r_config' = [r_config EXCEPT ![r_site] = entry]
    /\ IF entry.state = "raw"
       THEN r_err' = entry.config.err /\ r_pc' = "ended"
       ELSE /\ r_err' = r_err
            /\ r_pc' = IF entry.state = "valid" THEN "switch" ELSE "next"
SiteConfig ==
    /\ r_pc = "config"
    /\ IF r_config[r_site].state = "unset"
       THEN /\ SiteConfigGot(Resolved(r_global, r_local[r_site]))
            /\ r_resolved' = Counted(r_resolved, r_site)
       ELSE /\ SiteConfigGot(r_config[r_site])
            /\ UNCHANGED r_resolved
    /\ UNCHANGED <<r_always, r_global, r_local, r_switch, r_disabled, r_found,
                   r_fetched, r_seen, r_rewritten, r_saved, r_failed, r_count,
                   r_site, r_text, r_new>>
    /\ UNCHANGED <<maskVars, iconVars, tplVars, pageVars, buildVars,
                   galVars, logVars>>

\* self._disabled.add(site).  DisableNot: a check that remembers nothing.
DisableNot(disabled, site) == disabled
Disable(disabled, site) == disabled \cup {site}

\* ... or self.site_disabled: return: the property site_disabled
SiteDisabled ==
    /\ r_pc = "switch"
    /\ IF r_site \in r_disabled
       THEN /\ r_pc' = "next"
            /\ UNCHANGED <<r_disabled, r_found, r_fetched>>
       ELSE /\ r_fetched' = Counted(r_fetched, r_site)
            /\ IF r_switch[r_site].exists /\ Strip(r_switch[r_site].content) # ""
               THEN /\ r_disabled' = Disable(r_disabled, r_site)
                    /\ r_found' = r_found \cup {r_site}
                    /\ r_pc' = "next"
               ELSE /\ r_pc' = "rewrite"
                    /\ UNCHANGED <<r_disabled, r_found>>
    /\ UNCHANGED <<r_always, r_global, r_local, r_switch, r_config, r_resolved,
                   r_seen, r_rewritten, r_saved, r_failed, r_count, r_site,
                   r_text, r_new, r_err>>
    /\ UNCHANGED <<maskVars, iconVars, tplVars, pageVars, buildVars,
                   galVars, logVars>>

\* treat_page from mask_html_tags to unmask_text
TreatText ==
    /\ r_pc = "rewrite"
    /\ r_new' = treat_text(r_text, {}, r_config[r_site].config.BS_templates,
                           RunMap, r_site).text
    /\ r_rewritten' = Counted(r_rewritten, r_site)
    /\ r_pc' = "save"
    /\ UNCHANGED <<r_always, r_global, r_local, r_switch, r_config, r_disabled,
                   r_found, r_resolved, r_fetched, r_seen, r_saved, r_failed,
                   r_count, r_site, r_text, r_err>>
    /\ UNCHANGED <<maskVars, iconVars, tplVars, pageVars, buildVars,
                   galVars, logVars>>

\* self.put_current(...): pywikibot saves the page unless the text is the
\* text the page has.  treat_page asks for no error to be ignored and
\* catches none: with -always the save is asynchronous and its failure is
\* logged by the thread that saves; without it the exception goes through
\* put_current and treat_page to run(), which ends.
SaveFailed(outcome) ==
    /\ r_failed' = r_failed + 1
    /\ IF r_always THEN r_pc' = "next" /\ r_err' = r_err
       ELSE r_pc' = "ended" /\ r_err' = outcome
    /\ UNCHANGED r_saved
RunPutCurrent ==
    /\ r_pc = "save"
    /\ IF r_new = r_text
       THEN r_pc' = "next" /\ UNCHANGED <<r_saved, r_failed, r_err>>
       ELSE \E outcome \in SaveOutcomes :
               IF outcome = "saved"
               THEN /\ r_saved' = Counted(r_saved, r_site)
                    /\ r_pc' = "next"
                    /\ UNCHANGED <<r_failed, r_err>>
               ELSE SaveFailed(outcome)
    /\ UNCHANGED <<r_always, r_global, r_local, r_switch, r_config, r_disabled,
                   r_found, r_resolved, r_fetched, r_seen, r_rewritten, r_count,
                   r_site, r_text, r_new>>
    /\ UNCHANGED <<maskVars, iconVars, tplVars, pageVars, buildVars,
                   galVars, logVars>>

RunNext ==
    \/ EditSwitch \/ NextPage \/ SiteConfig \/ SiteDisabled \/ TreatText
    \/ RunPutCurrent

(***************************************************************************)
(* process_options on a config, step by step.                              *)
(***************************************************************************)

ItemLists ==
    UNION {[1..n -> MapEntries] : n \in 0..MaxItems}

BuildInit ==
    /\ b_config \in [redirects : {r \in SUBSET RedirectPages : Cardinality(r) <= MaxRedirects},
                     replacement_map : ItemLists]
    /\ b_redirects = b_config.redirects
    /\ b_k = 1
    /\ b_map = <<>>
    /\ b_gen = {}
    /\ b_err = ""
    /\ b_pc = "redirects"
    /\ MaskIdle
    /\ IconIdle
    /\ TplIdle
    /\ PageIdle
    /\ RunIdle
    /\ GalIdle
    /\ LogIdle

\* What an entry does to the map, the generator and the run.
EntryDone(e, caught) ==
    IF e.ok
    THEN /\ b_map' = MapItem(b_map, e.page, e.target)
         /\ b_gen' = b_gen \cup {BSiconName(e.page)}
         /\ UNCHANGED <<b_err, b_pc>>
    ELSE IF caught
    THEN UNCHANGED <<b_map, b_gen, b_err, b_pc>>
    ELSE /\ b_err' = e.err
         /\ b_pc' = "raised"
         /\ UNCHANGED <<b_map, b_gen>>
RedirectDone(e) == EntryDone(e, e.ok \/ RedirectCaught(e.err))
ExplicitDone(e) == EntryDone(e, e.ok \/ ExplicitCaught(e.err))

\* for page in options["config"].pop("redirects"): one page
BuildRedirect ==
    /\ b_pc = "redirects"
    /\ \E title \in b_redirects :
          /\ b_redirects' = b_redirects \ {title}
          /\ RedirectDone(RedirectEntry("commons", title))
    /\ UNCHANGED <<b_config, b_k>>
    /\ UNCHANGED <<maskVars, iconVars, tplVars, pageVars, runVars,
                   galVars, logVars>>

\* The first loop is through.
RedirectsDone ==
    /\ b_pc = "redirects"
    /\ b_redirects = {}
    /\ b_pc' = "explicit"
    /\ UNCHANGED <<b_config, b_redirects, b_k, b_map, b_gen, b_err>>
    /\ UNCHANGED <<maskVars, iconVars, tplVars, pageVars, runVars,
                   galVars, logVars>>

\* for key, value in options["config"].pop("replacement_map", dict()).items()
BuildExplicit ==
    /\ b_pc = "explicit"
    /\ b_k <= Len(b_config.replacement_map)
    /\ b_k' = b_k + 1
    /\ ExplicitDone(ExplicitEntry("commons", b_config.replacement_map[b_k]))
    /\ UNCHANGED <<b_config, b_redirects>>
    /\ UNCHANGED <<maskVars, iconVars, tplVars, pageVars, runVars,
                   galVars, logVars>>

\* options["bsicons_map"] = bsicons_map; return gen
BuildReturn ==
    /\ b_pc = "explicit"
    /\ b_k > Len(b_config.replacement_map)
    /\ b_pc' = "done"
    /\ UNCHANGED <<b_config, b_redirects, b_k, b_map, b_gen, b_err>>
    /\ UNCHANGED <<maskVars, iconVars, tplVars, pageVars, runVars,
                   galVars, logVars>>

BuildNext == BuildRedirect \/ RedirectsDone \/ BuildExplicit \/ BuildReturn

(***************************************************************************)
(* replace_gallery_files on a parsed text that holds gallery tags, tag by  *)
(* tag: the page may have replacements recorded already (by the file-link  *)
(* strategy) when the galleries are gone through.                          *)
(***************************************************************************)

\* The lines the gallery bodies are made of, and how many make a body.
GalleryLinePool ==
    <<"BSicon_foo.svg|cap", "File:BSicon_foo.svg", "BSicon bar.svg|a|b",
      "<!--c-->BSicon_foo.svg|cap<!--e-->", "BSicon_foo.svg|<nowiki>x</nowiki>",
      "Plan.png|BSicon_foo.svg", "">>
MaxLines == 2

GalleryBodies ==
    {"\n" \o Join("\n", [k \in DOMAIN f |-> GalleryLinePool[f[k]]]) \o "\n" :
        f \in UNION {[1..n -> 1..Len(GalleryLinePool)] : n \in 1..MaxLines}}

\* The parsed texts: one gallery after a text, or a gallery of one line
\* before it.
GalleryCodes ==
    {<<TextNode("x"), GalleryNode(body)>> : body \in GalleryBodies}
    \cup {<<GalleryNode("\n" \o GalleryLinePool[j] \o "\n"), GalleryNode(body)>> :
             j \in 1..Len(GalleryLinePool), body \in GalleryBodies}

GalleryInit ==
    /\ \E k \in 1..Len(ReplacementMaps) :
          g_map = ExplicitMap(<<>>, "commons", ReplacementMaps[k], 1)
    /\ g_orig \in GalleryCodes
    /\ g_code = g_orig
    /\ g_before \in {{}, {[old |-> "q", new |-> "r"]}}
    /\ g_repl = g_before
    /\ g_k = 1
    /\ g_pc = "tags"
    /\ MaskIdle
    /\ IconIdle
    /\ TplIdle
    /\ PageIdle
    /\ RunIdle
    /\ BuildIdle
    /\ LogIdle

\* for tag in wikicode.ifilter_tags(): a gallery tag
GalleryTagStep ==
    /\ g_pc = "tags"
    /\ g_k <= Len(g_code)
    /\ g_code[g_k].t = "gallery"
    /\ LET r == GalleryTag(g_code[g_k], g_repl, g_map, "cs") IN
       /\ g_code' = [g_code EXCEPT ![g_k] = r.node]
       /\ g_repl' = r.repl
    /\ g_k' = g_k + 1
    /\ UNCHANGED <<g_map, g_orig, g_before, g_pc>>
    /\ UNCHANGED <<maskVars, iconVars, tplVars, pageVars, runVars, buildVars,
                   logVars>>

\* a node that is no gallery tag
GallerySkip ==
    /\ g_pc = "tags"
    /\ g_k <= Len(g_code)
    /\ g_code[g_k].t # "gallery"
    /\ g_k' = g_k + 1
    /\ UNCHANGED <<g_map, g_orig, g_code, g_before, g_repl, g_pc>>
    /\ UNCHANGED <<maskVars, iconVars, tplVars, pageVars, runVars, buildVars,
                   logVars>>

\* the loop has gone through the tags
GalleryReturn ==
    /\ g_pc = "tags"
    /\ g_k > Len(g_code)
    /\ g_pc' = "done"
    /\ UNCHANGED <<g_map, g_orig, g_code, g_before, g_repl, g_k>>
    /\ UNCHANGED <<maskVars, iconVars, tplVars, pageVars, runVars, buildVars,
                   logVars>>

GalNext == GalleryTagStep \/ GallerySkip \/ GalleryReturn

(***************************************************************************)
(* Runs of the reporter for the dates of one month, one after another:     *)
(* output_log (output_move_log and output_edits have the same lines) step  *)
(* by step, on the pages of the month's series.                            *)
(***************************************************************************)

\* The dates the reporter is run for, how many characters the rows of a
\* day come to, how many pages the series has and how many runs there are.
Dates == {"2026-11-01", "2026-11-02", "2026-11-03"}
RowSizes == {0, 1000000}
MaxReports == 4
MaxSeries == MaxReports

LogInit ==
    /\ l_kind \in {"log", "move", "edits"}
    /\ l_pages = [k \in 1..MaxSeries |-> MissingPage]
    /\ l_date = ""
    /\ l_page = 1
    /\ l_runs = 0
    /\ l_pc = "idle"
    /\ MaskIdle
    /\ IconIdle
    /\ TplIdle
    /\ PageIdle
    /\ RunIdle
    /\ BuildIdle
    /\ GalIdle

\* main calls output_log for a date: log_page is the first page of the month
ReportStart ==
    /\ l_pc = "idle"
    /\ l_runs < MaxReports
    /\ l_date' \in Dates
    /\ l_page' = 1
    /\ l_runs' = l_runs + 1
    /\ l_pc' = "first"
    /\ UNCHANGED <<l_kind, l_pages>>
    /\ UNCHANGED <<maskVars, iconVars, tplVars, pageVars, runVars, buildVars,
                   galVars>>

\* if start.date().isoformat() in get_headers(log_page.text): return
\* (before get_page_from_size and after it)
HeaderCheck ==
    /\ l_pc \in {"first", "second"}
    /\ l_pc' = IF Listed(l_date, get_headers(l_pages[l_page].text))
               THEN "idle"
               ELSE IF l_pc = "first" THEN "size" ELSE "create"
    /\ UNCHANGED <<l_kind, l_pages, l_date, l_page, l_runs>>
    /\ UNCHANGED <<maskVars, iconVars, tplVars, pageVars, runVars, buildVars,
                   galVars>>

\* log_page = get_page_from_size(log_page)
GetPageFromSize ==
    /\ l_pc = "size"
    /\ PageFromSize(l_pages, l_page) <= MaxSeries
    /\ l_page' = PageFromSize(l_pages, l_page)
    /\ l_pc' = "second"
    /\ UNCHANGED <<l_kind, l_pages, l_date, l_runs>>
    /\ UNCHANGED <<maskVars, iconVars, tplVars, pageVars, runVars, buildVars,
                   galVars>>

\* if not log_page.exists(): log_page.save(...), which raises if it fails
CreateLogPage ==
    /\ l_pc = "create"
    /\ IF l_pages[l_page].exists
       THEN l_pc' = "save" /\ UNCHANGED l_pages
       ELSE \E saved \in BOOLEAN :
               IF saved
               THEN /\ l_pages' = [l_pages EXCEPT ![l_page] = CreatedPage]
                    /\ l_pc' = "save"
               ELSE l_pc' = "idle" /\ UNCHANGED l_pages
    /\ UNCHANGED <<l_kind, l_date, l_page, l_runs>>
    /\ UNCHANGED <<maskVars, iconVars, tplVars, pageVars, runVars, buildVars,
                   galVars>>

\* try: log_page.save(text=log_text, section="new", summary=date, ...)
\* except pywikibot.exceptions.Error: pywikibot.exception()
SaveSection ==
    /\ l_pc = "save"
    /\ \E rows \in RowSizes, saved \in BOOLEAN :
          l_pages' = IF saved
                     THEN [l_pages EXCEPT ![l_page] =
                              WithSection(l_pages[l_page], l_date,
                                          LogText(l_kind, rows), rows)]
                     ELSE l_pages
    /\ l_pc' = "idle"
    /\ UNCHANGED <<l_kind, l_date, l_page, l_runs>>
    /\ UNCHANGED <<maskVars, iconVars, tplVars, pageVars, runVars, buildVars,
                   galVars>>

LogNext ==
    ReportStart \/ HeaderCheck \/ GetPageFromSize \/ CreateLogPage \/ SaveSection

SpecMask == MaskInit /\ [][MaskNext]_vars

SpecIcon == IconInit /\ [][IconNext]_vars

SpecTpl == TplInit /\ [][TplNext]_vars

SpecPage == PageInit /\ [][PageNext]_vars

SpecRun == RunInit /\ [][RunNext]_vars

SpecBuild == BuildInit /\ [][BuildNext]_vars

SpecGallery == GalleryInit /\ [][GalNext]_vars

SpecLog == LogInit /\ [][LogNext]_vars

(***************************************************************************)
(* The claims about the masking layer, checked under SpecMask.             *)
(***************************************************************************)

\* The text holds neither the marker nor the fixed pipe placeholder.
MaskClean(text) == ~Contains(text, Marker) /\ ~Contains(text, PipePlaceholder)

\* The while loop of unmask_text cannot end: the marker is found and a pass
\* of the loop leaves the text as it is.
UnmaskStuck ==
    /\ m_pc = "loop"
    /\ MarkerFound(m_text)
    /\ UnmaskPass(m_text, m_mask) = m_text

\* C1: for a text without the placeholder marker, unmask_text applied to what
\* mask_html_tags (and mask_pipe_mw after it) returned returns the original
\* text: its loop ends, and with the text that was masked.
C1_MaskUnmaskRoundTrip ==
    MaskClean(m_orig) => (~UnmaskStuck /\ (m_pc = "done" => m_text = m_orig))

\* a is a substring of b and shorter.
ProperSubstring(a, b) == Len(a) < Len(b) /\ Contains(b, a)

\* The mask store holds a match that is a proper substring of another.
NestedMatches ==
    \E j, k \in DOMAIN m_mask : ProperSubstring(m_mask[k], m_mask[j])

\* C2: mask_text assigns its keys in non-increasing order of the length of
\* the matches, and a match that another match is a proper substring of is
\* masked first and as a whole: its placeholder stands in the masked text,
\* no occurrence of it is left, and no tag is left for the shorter match to
\* have been substituted in.
C2_MaskingOrder ==
    m_pc = "html" =>
        /\ \A j, k \in DOMAIN m_mask :
               j < k => Len(m_mask[j]) >= Len(m_mask[k])
        /\ \A j, k \in DOMAIN m_mask :
               ProperSubstring(m_mask[k], m_mask[j]) =>
                   LET first == Min({l \in DOMAIN m_mask : m_mask[l] = m_mask[j]}) IN
                   /\ first < k
                   /\ Contains(m_orig, m_mask[j])
                   /\ Contains(m_text, Placeholder(first))
                   /\ ~Contains(m_text, m_mask[j])
        /\ NestedMatches => FindAll(TagsRegex, 1, m_text) = <<>>

\* A text with a tag inside another tag has been masked.
C2_Witness == m_pc = "html" /\ NestedMatches

(***************************************************************************)
(* The claims about the icon identity, checked under SpecIcon.             *)
(***************************************************************************)

\* The title the last construction was given, and its underscored form.
GivenTitle ==
    IF i_args.title = "" /\ i_args.name # "" THEN "BSicon_" \o i_args.name \o ".svg"
    ELSE i_args.title
GivenUnderscored == TitleUnderscore(GivenTitle)

\* The title starts with 'BSicon_' and ends with '.svg', read off the text.
IsIconTitle(t) ==
    /\ Len(t) >= 11
    /\ SubSeq(t, 1, 7) = "BSicon_"
    /\ SubSeq(t, Len(t) - 3, Len(t)) = ".svg"

NameOf(icon) == SubSeq(icon.title, 8, Len(icon.title) - 4)

\* C6: two icons are equal and have equal hashes if and only if their names
\* are equal, whatever site or title they were built from; so the map holds
\* one entry per name and a lookup with an icon built from a page finds the
\* value of the entry whose key has that name (None if there is none).
C6_EqualityByName ==
    /\ \A j, k \in 1..Len(i_map) : NameOf(i_map[j].key) = NameOf(i_map[k].key) => j = k
    /\ i_icon.ok =>
          /\ \A k \in 1..Len(i_map) :
                (IconEq(i_map[k].key, i_icon) /\ IconHash(i_map[k].key) = IconHash(i_icon))
                    <=> NameOf(i_map[k].key) = NameOf(i_icon)
          /\ IconEq(i_icon, i_icon)
          /\ i_looked =>
                IF \E k \in 1..Len(i_map) : NameOf(i_map[k].key) = NameOf(i_icon)
                THEN \E k \in 1..Len(i_map) :
                        /\ NameOf(i_map[k].key) = NameOf(i_icon)
                        /\ i_got = i_map[k].value
                ELSE i_got = None

\* An icon built on another wiki from another spelling of the title has found
\* the entry of the map.
C6_Witness ==
    /\ i_looked
    /\ i_icon.ok
    /\ i_icon.site = "cs"
    /\ i_args.title = "Image:BSicon a.svg"
    /\ i_got.ok
    /\ \E k \in 1..Len(i_map) :
          /\ i_map[k].key.site = "commons"
          /\ i_got = i_map[k].value
          /\ NameOf(i_got) # NameOf(i_icon)

(***************************************************************************)
(* The claims about the template strategies, checked under SpecTpl.        *)
(***************************************************************************)

\* The name the map gives for the icon of a name ("" if it has none), and
\* whether a replacement has been recorded.
MappedName(name) ==
    LET hits == {j \in 1..Len(t_map) : NameOf(t_map[j].key) = name} IN
    IF hits = {} THEN "" ELSE NameOf(t_map[CHOOSE j \in hits : TRUE].value)
Recorded(old, new) == [old |-> old, new |-> new] \in t_repl

\* The value of the k-th parameter as the page has it, comments and outer
\* blanks taken off; whether the parameter has the name given.
EffectiveValue(k) == StripComments(t_orig[k].value)
Named(k, name) == Strip(t_orig[k].name) = name
TextStartsWith(n, p) == Len(n) >= Len(p) /\ SubSeq(n, 1, Len(p)) = p
TextAfter(n, k) == SubSeq(n, k + 1, Len(n))

\* C7: for a BS template of the group with prefix P and its parameter named 1
\* with value V, icon P+V being mapped to N: the parameter is rewritten and
\* the Replacement recorded only if N starts with P, the new value being N
\* without its first len(P) characters; otherwise the parameter stays as it
\* is and this parameter records nothing (a Replacement of the same icons in
\* the set then comes from another parameter that names icon P+V in full).
\* With P = 'x': xFoo -> yBar leaves 'Foo', xFoo -> xBaz gives 'Baz'.
C7_SamePrefix ==
    t_pc = "done" =>
    \A g \in 1..Len(BS_templates) : t_tpl \in BS_templates[g].templates =>
    LET P == Strip(BS_templates[g].prefix) IN
    \A k \in 1..Len(t_orig) : Named(k, "1") =>
        LET V == EffectiveValue(k)
            N == MappedName(P \o V)
        IN N # "" =>
           /\ TextStartsWith(N, P) =>
                 /\ Recorded(P \o V, N)
                 /\ t_orig[k].value = V => t_params[k].value = TextAfter(N, Len(P))
           /\ ~TextStartsWith(N, P) =>
                 /\ t_params[k] = t_orig[k]
                 /\ Recorded(P \o V, N) =>
                       \E j \in 1..Len(t_orig) : ~Named(j, "1") /\ EffectiveValue(j) = P \o V
           /\ (P = "x" /\ t_orig[k].value = "Foo" /\ N = "yBar") => t_params[k].value = "Foo"
           /\ (P = "x" /\ t_orig[k].value = "Foo" /\ N = "xBaz") => t_params[k].value = "Baz"

\* A BS template of the group 'x' with two parameters 1: xFoo -> yBar was
\* passed over, xQux -> xQuy was written as 'Quy'.
C7_Witness ==
    /\ t_pc = "done"
    /\ t_tpl = "BSx"
    /\ t_orig = <<[name |-> "1", value |-> "Foo"], [name |-> "1", value |-> "Qux"]>>
    /\ MappedName("xFoo") = "yBar"
    /\ t_params[1].value = "Foo"
    /\ t_params[2].value = "Quy"
    /\ t_repl = {[old |-> "xQux", new |-> "xQuy"]}

\* The icon a typ value stands for, read off the text.
IsTyp(k) == Named(k, "typ") \/ Named(k, "Typ")
TypIconName(v) ==
    IF TextStartsWith(v, "ex") THEN "exl" \o TextAfter(v, 2) ELSE "l" \o v

\* C8: in a railway-track template a typ value 'ex'+rest is read as icon
\* 'exl'+rest and any other value v as icon 'l'+v.  If the new icon's name
\* starts with 'exl' the new typ value is 'ex' + the rest of the name; if it
\* starts with 'l' it is the name without the 'l'; otherwise the typ
\* parameter stays as it is and records nothing (a Replacement of the same
\* icons in the set then comes from a parameter that names the icon in full),
\* and the other parameters of the template are rewritten all the same.
C8_TypTransform ==
    (t_pc = "done" /\ t_tpl \in railway_track_templates) =>
    \A k \in 1..Len(t_orig) :
        LET V == EffectiveValue(k)
            cur == IF IsTyp(k) THEN TypIconName(V) ELSE V
            N == MappedName(cur)
            plain == t_orig[k].value = V
        IN N # "" =>
           IF ~IsTyp(k)
           THEN Recorded(cur, N) /\ (plain => t_params[k].value = N)
           ELSE IF TextStartsWith(N, "exl")
           THEN Recorded(cur, N) /\ (plain => t_params[k].value = "ex" \o TextAfter(N, 3))
           ELSE IF TextStartsWith(N, "l")
           THEN Recorded(cur, N) /\ (plain => t_params[k].value = TextAfter(N, 1))
           ELSE /\ t_params[k] = t_orig[k]
                /\ Recorded(cur, N) =>
                      \E j \in 1..Len(t_orig) : ~IsTyp(j) /\ EffectiveValue(j) = cur

\* typ=ABC stands for lABC, whose new icon mABC has no typ value: it stayed,
\* and the parameter after it was rewritten.
C8_Witness ==
    /\ t_pc = "done"
    /\ t_tpl = "Rt"
    /\ t_orig = <<[name |-> "typ", value |-> "ABC"], [name |-> "typ", value |-> "exABC"]>>
    /\ MappedName("lABC") = "mABC"
    /\ t_params[1].value = "ABC"
    /\ t_params[2].value = "exXYZ"
    /\ t_repl = {[old |-> "exlABC", new |-> "exlXYZ"]}

\* The route-map tokens of a value: where the pattern matches and the name
\* of the token is a key of the map.
TokenAt(v, i) == MatchAt(ROUTEMAP_BSICON, v, i)
TokenName(v, i) == StripComments(TokenAt(v, i).caps[2])
MappedTokens(v) ==
    {i \in MatchStarts(ROUTEMAP_BSICON, v) : MappedName(TokenName(v, i)) # ""}

\* The value with the name of each mapped token (as it stands in the token)
\* replaced by the new name, the last token first; v is the value as it was.
RECURSIVE RewriteTokens(_, _, _)
RewriteTokens(v, now, hits) ==
    IF hits = {} THEN now
    ELSE LET i == CHOOSE h \in hits : \A o \in hits : o <= h
             m == TokenAt(v, i)
             name == TokenName(v, i)
             at == i + Len(m.caps[1]) + Find(m.caps[2], name) - 1
         IN RewriteTokens(v,
                          SubSeq(now, 1, at - 1) \o MappedName(name)
                          \o SubSeq(now, at + Len(name), Len(now)),
                          hits \ {i})

\* C9: in a route-map template, in a parameter named map<digits> or purely
\* numeric, every token between route-map delimiters whose name is a key of
\* the map has only its name replaced by the new name; the delimiters and all
\* other text of the value stay; other parameters stay as they are.
C9_RoutemapTokens ==
    (t_pc = "done" /\ t_tpl \in routemap_templates) =>
    \A k \in 1..Len(t_orig) :
        t_params[k].value =
            IF SearchFrom(MapParamName, Strip(t_orig[k].name), 1).ok
            THEN RewriteTokens(t_orig[k].value, t_orig[k].value,
                               MappedTokens(t_orig[k].value))
            ELSE t_orig[k].value

(***************************************************************************)
(* The claims about the treatment of a page, checked under SpecPage.       *)
(***************************************************************************)

\* No name of a key of the replacement map occurs anywhere in the text.
NoMappedIcon(text) ==
    \A k \in 1..Len(p_map) : ~Contains(text, BSiconName(p_map[k].key))

\* C3: when the first treatment of a page is over, the text the page had
\* names no icon that is a key of the replacement map and no replacement has
\* been recorded, then the page has not been saved.
C3_NoSaveWithoutReplacement ==
    (p_pc = "done" /\ p_runs = 1 /\ NoMappedIcon(p_orig) /\ p_repl = {})
        => p_saves = 0

\* C4: when the second treatment of a page is over, which worked on the text
\* the first treatment left, it has recorded no replacement: the replacements
\* of the page are those it had when the second treatment began.
C4_Idempotence ==
    (p_pc = "done" /\ p_runs = 2) => p_repl = p_before

\* The file links of a text: the matches of the site's file regex that begin
\* outside the disabled parts of the text.
InDisabledPart(text, i) ==
    LET parts == FindIter(DisabledParts, text) IN
    \E k \in 1..Len(parts) : parts[k].start <= i /\ i < parts[k].end
LinkOutside(text, m) == ~InDisabledPart(text, m.start)
FileLinks(text) ==
    LET ms == FindIter(file_regex, text)
        outside == {k \in 1..Len(ms) : LinkOutside(text, ms[k])}
    IN [j \in 1..Cardinality(outside) |->
           ms[CHOOSE k \in outside : Cardinality({l \in outside : l < k}) = j - 1]]

\* The text from position i on with the file name of each link from the j-th
\* on replaced by the title of the icon the map gives for it, and nothing
\* else changed.
RECURSIVE RewriteFileNames(_, _, _, _)
RewriteFileNames(text, links, j, i) ==
    IF j > Len(links) THEN From(text, i)
    ELSE LET filename == Group(links[j], 1)
             at == FindFrom(text, ":", links[j].start) + 1
             f == ReplacementOf(p_map, BSiconPage("cs", filename, ""))
         IN Slice(text, i, at - 1)
            \o (IF f.found THEN TitleNoNs(f.new) ELSE filename)
            \o RewriteFileNames(text, links, j + 1, at + Len(filename))

\* C10: replace_file_links returns the text it was given with the file name
\* of every file link outside the disabled parts replaced by the title of
\* the new icon, if the map has one, and every other part of the text as it
\* was, the file names in comments and outside file links included.
C10_OnlyFileNamesOfLinks ==
    p_pc = "parse" => p_text = RewriteFileNames(p_arg, FileLinks(p_arg), 1, 1)

(***************************************************************************)
(* The claims about the caches of a run, the kill switch and the errors of *)
(* a run, checked under SpecRun.                                           *)
(***************************************************************************)

\* The kill-switch page of the site has content now.
SwitchedOff(s) == r_switch[s].exists /\ Strip(r_switch[s].content) # ""

\* C11: once the kill-switch page of a site has been found to exist with
\* content (stripped of whitespace), no page of that site is rewritten or
\* saved for the rest of the run, whatever the page holds later.
C11_KillSwitchLasts ==
    [][\A s \in RunSites :
          s \in r_found =>
              r_rewritten'[s] = r_rewritten[s] /\ r_saved'[s] = r_saved[s]]_vars

\* A later page of a site found switched off is at the check of the kill
\* switch, and the kill-switch page has no content any more.
C11_Witness ==
    /\ r_pc = "switch"
    /\ r_site \in r_found
    /\ ~SwitchedOff(r_site)
    /\ r_seen[r_site] >= 2

\* C12: the config of a site is resolved at most once in a run: the second
\* and every later page of the site gets what the cache holds, the None of
\* a config that did not pass validation included.
C12_ConfigResolvedOnce ==
    \A s \in RunSites :
        /\ r_resolved[s] <= 1
        /\ r_resolved[s] = 0 <=> r_config[s].state = "unset"

\* treat_page has returned for the second page of a site whose config did
\* not pass validation.
C12_Witness ==
    /\ r_pc = "next"
    /\ r_count >= 2
    /\ r_seen[r_site] >= 2
    /\ r_config[r_site].state = "none"
    /\ r_resolved[r_site] = 1

\* C13: the kill-switch page of a site is fetched at most once in a run,
\* whether the first check found the site enabled or disabled.
C13_SwitchFetchedOnce == \A s \in RunSites : r_fetched[s] <= 1

\* C14: a failure of the save of a page (an edit conflict, an error of the
\* server) is caught within the treatment of the page: it never ends the
\* run, the pages after it are treated.
C14_SaveFailureCaught == r_pc = "ended" => r_err \notin SaveErrors

\* The config of the site as validate_local_config has it after its loop:
\* no template of any kind, or no summary_prefix.
LacksTemplatesOrPrefix(v) == v.err = "" /\ (~HasTemplates(v) \/ ~v.has_keys)
ResolvedLacking(s) ==
    LacksTemplatesOrPrefix(
        ValidatedItems(Update(r_global, r_local[s], 1), 1, ValidationStart))

C16_ConfigErrorCaught ==
    r_pc = "ended" => r_err \notin {"AttributeError", "TypeError"}

(***************************************************************************)
(* The claims about the building of the replacement map, checked under     *)
(* SpecBuild.                                                              *)
(***************************************************************************)

\* The names of the keys of a map, and the names of the entries of the
\* config whose two sides are icons: the redirects with their targets, and
\* the entries of replacement_map.
KeyNames(map) == {BSiconName(map[k].key) : k \in 1..Len(map)}
ValidRedirectNames(config) ==
    {BSiconName(RedirectEntry("commons", t).page) :
        t \in {r \in config.redirects : RedirectEntry("commons", r).ok}}
ValidItemNames(config) ==
    {BSiconName(ExplicitEntry("commons", config.replacement_map[k]).page) :
        k \in {j \in 1..Len(config.replacement_map) :
                  ExplicitEntry("commons", config.replacement_map[j]).ok}}

\* C17: every redirect pair and every entry of replacement_map of which a
\* side is no valid icon is left out of the map, every entry of two valid
\* icons is in it, and no such entry ends the build with an error.
C17_InvalidEntriesOmitted ==
    /\ b_err \notin {"InvalidTitleError", "ValueError"}
    /\ b_pc = "done" =>
          KeyNames(b_map) = ValidRedirectNames(b_config) \cup ValidItemNames(b_config)

\* C18: an error of the resolution of a redirect, "not a redirect" as well
\* as "circular redirect", drops the entry and no more: the build goes on
\* with the other entries and the run comes to the pages.
C18_RedirectErrorDropsEntry ==
    b_err \notin {"IsNotRedirectPageError", "CircularRedirectError"}

\* Where a chain of redirects ends.
RECURSIVE UltimateTarget(_)
UltimateTarget(title) ==
    IF RedirectsTo(title) \in {"", title} THEN title
    ELSE UltimateTarget(RedirectsTo(title))

\* C19: chains of redirects are resolved to their end: for redirects
\* A -> B -> C the map sends A to C, never to the redirect B (unless
\* replacement_map has an entry for A, which comes later and stays).
C19_ChainsResolved ==
    b_pc = "done" =>
        \A t \in b_config.redirects :
            (/\ RedirectEntry("commons", t).ok
             /\ BSiconPage("commons", UltimateTarget(t), "").ok
             /\ BSiconName(RedirectEntry("commons", t).page)
                    \notin ValidItemNames(b_config))
            => IconEq(DictGet(b_map, RedirectEntry("commons", t).page),
                      BSiconPage("commons", UltimateTarget(t), ""))

(***************************************************************************)
(* The claim about the edit summary, checked under SpecPage.               *)
(***************************************************************************)

\* The list a summary ends with, item by item.
SummaryList(summary, prefix) ==
    IF Len(summary) = Len(prefix) + 2 THEN <<>>
    ELSE Split(From(summary, Len(prefix) + 3), ", ")

\* The treatment at hand has saved the page.
SavedNow == p_pc = "done" /\ p_page # p_orig

\* C20: the summary of a save is the summary prefix of the site, ": ", and
\* the replacements recorded for the page, each as old name, arrow, new
\* name, joined by ", "; each of them is there once, however often it was
\* made on the page.
C20_SummaryListsReplacements ==
    SavedNow =>
        /\ StartsWith(p_summary, summary_prefix \o ": ")
        /\ Len(SummaryList(p_summary, summary_prefix)) = Cardinality(p_repl)
        /\ {SummaryList(p_summary, summary_prefix)[k] :
                k \in 1..Len(SummaryList(p_summary, summary_prefix))}
               = {r.old \o "→" \o r.new : r \in p_repl}

\* A page with the same file link twice has been saved, both links
\* rewritten, and the summary names the replacement once.
C20_Witness ==
    /\ SavedNow
    /\ Count(p_orig, "[[File:BSicon_foo.svg]]") = 2
    /\ p_repl = {[old |-> "foo", new |-> "bar"]}
    /\ p_summary = "Replace BSicons: foo→bar"

(***************************************************************************)
(* The claims about what a treatment records and the order of its steps.   *)
(***************************************************************************)

\* The parameters whose value the strategy has changed.
ChangedParams == {k \in 1..Len(t_orig) : t_params[k].value # t_orig[k].value}

\* C21: when a strategy has added a Replacement to the set of the page, it
\* has changed the text it worked on: a template strategy that has recorded
\* a Replacement has changed the value of a parameter.
C21_RecordedMeansRewritten ==
    (t_pc = "done" /\ t_repl # {}) => ChangedParams # {}


\* The steps of treat_page in the order of its lines: from each position of
\* a treatment, the positions that may come next ("loop" is the while loop
\* of unmask_text, "done" the return of treat_page).
StepOrder ==
    {<<"start", "links">>, <<"start", "done">>, <<"links", "parse">>,
     <<"parse", "gallery">>, <<"gallery", "templates">>,
     <<"templates", "unmask">>, <<"unmask", "loop">>, <<"loop", "loop">>,
     <<"loop", "done">>, <<"done", "start">>}

\* The text holds an HTML tag.
HasHtmlTag(text) == MatchStarts(TagsRegex, text) # {}

\* C22: a treatment takes its steps in one order, each once: the HTML tags
\* are masked, the file links rewritten (in a text that holds no HTML tag
\* any more), the pipe magic word masked and the text parsed, the galleries
\* rewritten, the templates rewritten, the text unmasked, the page saved.
\* After the unmasking has begun nothing is rewritten or recorded, and the
\* save is the last step.
C22_StepOrder ==
    [][/\ <<p_pc, p_pc'>> \in StepOrder
       /\ p_pc = "links" => ~HasHtmlTag(p_arg')
       /\ p_pc \in {"unmask", "loop"} => p_repl' = p_repl /\ p_code' = p_code
       /\ p_saves' # p_saves => p_pc = "loop" /\ p_pc' = "done"]_vars

\* A page that held an HTML tag and a mapped file link has gone through
\* every step and was saved.
C22_Witness ==
    /\ p_pc = "done"
    /\ p_enabled
    /\ p_runs = 1
    /\ p_mask # EmptyMask
    /\ p_repl # {}
    /\ p_saves = 1


\* The set of replacements the rewriting of the page starts from: the one
\* the page object has, or the empty one replace_file_links gives it.
ReplacementsAtStart == IF p_has THEN p_repl ELSE {}

\* C23: when the rewriting of a page begins, the set of replacements of the
\* page is empty, in every treatment of the run, that of a page object
\* treated before included.
C23_ReplacementsEmptyAtStart == p_pc = "links" => ReplacementsAtStart = {}


(***************************************************************************)
(* The claim about the galleries, checked under SpecGallery.               *)
(***************************************************************************)

\* A gallery line as the claim reads it: title, separator and caption by
\* the first pipe of the line, and what the map holds for the icon of the
\* title with its disabled regions taken off.
LineParts(line) == Partition(line, "|")
LineTitle(line) == removeDisabledParts(LineParts(line)[1])
LineIcon(line) ==
    IF LineTitle(line) = "" THEN [found |-> FALSE]
    ELSE ReplacementOf(g_map, BSiconPage("cs", LineTitle(line), ""))

\* The line with the title of the new icon in place of its title.
LineRewritten(line) ==
    IF LineIcon(line).found
    THEN TitleFull(LineIcon(line).new) \o LineParts(line)[2] \o LineParts(line)[3]
    ELSE line
HasMappedLine(body) ==
    \E i \in 1..Len(SplitLines(body)) : LineIcon(SplitLines(body)[i]).found

\* A replacement was recorded on the page by the time the k-th node is done.
RecordedSoFar(k) ==
    \/ g_before # {}
    \/ \E j \in 1..k : g_orig[j].t = "gallery" /\ HasMappedLine(g_orig[j].s)
BodyRewritten(body) ==
    Join("\n", [i \in 1..Len(SplitLines(body)) |-> LineRewritten(SplitLines(body)[i])])
    \o "\n"

\* C24: a gallery line whose title (its disabled regions taken off) names a
\* mapped icon gets the full title of the new icon in place of its title,
\* the separator and the caption staying as they are; the lines are joined
\* again (with a newline at the end) into the body of the gallery only if a
\* replacement has been recorded on the page so far, and the body stays as
\* it is on a page without any.
C24_GalleryRewriting ==
    g_pc = "done" =>
    \A k \in 1..Len(g_orig) : g_orig[k].t = "gallery" =>
        g_code[k].s = IF RecordedSoFar(k) THEN BodyRewritten(g_orig[k].s)
                      ELSE g_orig[k].s


(***************************************************************************)
(* The claim about the end of unmask_text, checked under SpecMask.         *)
(***************************************************************************)

\* No value of the mask store is or holds the placeholder of its own key.
NoOwnPlaceholder(mask) ==
    \A k \in DOMAIN mask : ~Contains(mask[k], Placeholder(k))

\* C25: for a mask store none of whose values is or holds its own
\* placeholder, the while loop of unmask_text ends, whatever the text: no
\* pass of the loop finds the marker and leaves the text as it is, and the
\* text returned holds no marker.
C25_UnmaskTerminates ==
    NoOwnPlaceholder(m_mask) =>
        /\ ~UnmaskStuck
        /\ m_pc = "done" => ~MarkerFound(m_text)


\* The typ parameters the railway-track strategy has written, and the name
\* of the new icon each was written for.
WrittenTyp ==
    {k \in 1..Len(t_orig) : IsTyp(k) /\ t_params[k].value # t_orig[k].value}
NewIconOfTyp(k) == MappedName(TypIcon(EffectiveValue(k)))

\* C26: the value written into a typ parameter reads back as the icon it
\* was written for: the read transform ('ex'+rest is icon 'exl'+rest, any
\* other value v is icon 'l'+v) applied to the new value gives the name of
\* the new icon.
C26_TypRoundTrip ==
    (t_pc = "done" /\ t_tpl \in railway_track_templates) =>
    \A k \in WrittenTyp :
        TypIcon(StripComments(t_params[k].value)) = NewIconOfTyp(k)


\* The template is a BS template of some group.
InBsGroup(template) ==
    \E g \in 1..Len(BS_templates) : template \in BS_templates[g].templates

\* The transclusion as the page had it, nothing recorded.
Untouched == [params |-> t_orig, repl |-> {}]

\* What the one strategy the template has leaves of the transclusion: the
\* route-map strategy before the railway-track one, that one before the
\* one of the BS templates, none for a template of no set.
OneStrategy ==
    IF t_tpl \in routemap_templates
    THEN replace_routemap_files(Untouched, t_map, "cs")
    ELSE IF t_tpl \in railway_track_templates
    THEN replace_rt_template_files(Untouched, t_map, "cs")
    ELSE IF InBsGroup(t_tpl)
    THEN replace_bs_template_files(Untouched, t_tpl, BS_templates, t_map, "cs")
    ELSE Untouched

\* C27: a transclusion is rewritten by one strategy at most, the first its
\* template has of route-map, railway-track, BS template; the parameters of
\* a template that is in none of the sets of the site stay as they are and
\* nothing is recorded.
C27_ExclusiveDispatch ==
    t_pc = "done" =>
        /\ t_params = OneStrategy.params
        /\ t_repl = OneStrategy.repl
        /\ (t_tpl \notin routemap_templates \cup railway_track_templates
            /\ ~InBsGroup(t_tpl)) => (t_params = t_orig /\ t_repl = {})

\* A template of no set was gone through whose parameter names a mapped
\* icon in full.
C27_Witness ==
    /\ t_pc = "done"
    /\ t_tpl = "Infobox"
    /\ \E k \in 1..Len(t_orig) : MappedName(EffectiveValue(k)) # ""
    /\ t_params = t_orig
    /\ t_repl = {}


\* The entry of the cache is the config of a site that passed
\* validate_local_config; the site has no entry, or its entry is None.
Passed(entry) == entry.config.err = "" /\ entry.config.result
NoneOrNoEntry(entry) == entry.state \in {"unset", "none"}

LinkIcon(text, j) == BSiconPage("cs", Group(FileLinks(text)[j], 1), "")
LinkMapped(text, j) == ReplacementOf(p_map, LinkIcon(text, j))

\* C29: replace_file_links takes each file link one step along the map,
\* whatever the other links of the page: a link that named icon X names the
\* icon the map has for X afterwards, also when that icon is itself a key
\* of the map and also named on the page.
C29_FileLinksOneStep ==
    p_pc = "parse" =>
        /\ Len(FileLinks(p_text)) = Len(FileLinks(p_arg))
        /\ \A j \in 1..Len(FileLinks(p_arg)) :
              LinkMapped(p_arg, j).found =>
                  /\ LinkIcon(p_text, j).ok
                  /\ IconEq(LinkIcon(p_text, j), LinkMapped(p_arg, j).new)


(***************************************************************************)
(* The claim about the log pages, checked under SpecLog.                   *)
(***************************************************************************)

\* The headers of the pages of the month, and the sections of a date among
\* them, by page and place.
SeriesHeaders == [k \in 1..Len(l_pages) |-> get_headers(l_pages[k].text)]
SectionsOf(headers, date) ==
    {p \in UNION {{k} \X (1..Len(headers[k])) : k \in 1..Len(headers)} :
        headers[p[1]][p[2]] = date}
OnePerDate(headers) ==
    \A d \in Dates : Cardinality(SectionsOf(headers, d)) <= 1

\* C30: the pages of a month hold one section at most for a date, whatever
\* runs of the reporter there have been: no section is appended for a date
\* that has a section on some page of the series, a page that has grown
\* past the limit of get_page_from_size included.
C30_OneSectionPerDate == OnePerDate(SeriesHeaders)

=============================================================================
